---- MODULE Spec2Model ----
(***************************************************************************)
(* A model of bip353-rs: the address parser (src/src/lib.rs), the TTL      *)
(* cache and the safety-check layer (src/src/resolver.rs) and the metrics  *)
(* collector (src/src/metrics.rs).                                         *)
(*                                                                         *)
(* Text is a sequence of one-character strings; the currency sign of       *)
(* lib.rs:38 is written "BTC" and white space is " ".                      *)
(***************************************************************************)
EXTENDS Integers, Sequences, FiniteSets, TLC

VARIABLES
    now,            \* the reading of the system clock (SystemTime::now)
    cfg,            \* with_enhanced_config's arguments: enable_cache, cache_ttl, enable_metrics
    entries,        \* AddressCache.entries: key -> CacheEntry
    metrics,        \* the resolver's Bip353Metrics counters
    engine_calls,   \* how often the backend (PaymentInstructions::parse) was invoked
    call,           \* per caller: position and locals of its resolve_with_safety_checks
    last,           \* the step taken last
    mproc,          \* per client of a free-standing Bip353Metrics: position and locals
    pin,            \* parse_address: the text given, its result, and the result of parsing that again
    eng,            \* Bip353Resolver::resolve: the resolver's configuration and one call's state
    heap,           \* the foreign boundary's allocations: id -> record
    held,           \* the ids the foreign caller has received and not yet released
    rt,             \* the process-wide RUNTIME cell of ffi.rs
    outs,           \* the caller's two out-parameter slots of bip353_parse_address
    bcall,          \* the boundary call made last: function, arguments, return value, effects
    pinfo,          \* the tail of resolve: the backend's instructions, the URI, the PaymentInfo
    lk,             \* the cache's RwLock: who holds it for reading, who for writing
    th,             \* the threads of the locking and of the runtime specification
    rt_made         \* how many runtimes Runtime::new() has made

\* the variables of the parser, the engine and the foreign boundary
OtherVars == <<pin, eng, heap, held, rt, outs, bcall, pinfo, lk, th, rt_made>>

vars == <<now, cfg, entries, metrics, engine_calls, call, last, mproc, OtherVars>>

----------------------------------------------------------------------------
(* Bounds of the model *)

MaxTime == 1
MaxTtl == 1

----------------------------------------------------------------------------
(* Option and Result values *)

None == [tag |-> "None"]
Some(v) == [tag |-> "Some", val |-> v]
Ok(v) == [tag |-> "Ok", val |-> v]
Err(e) == [tag |-> "Err", err |-> e]

----------------------------------------------------------------------------
(* lib.rs: parse_address *)

IsSpace(ch) == ch = " "

RECURSIVE TrimStart(_)
TrimStart(s) ==
    IF s # <<>> /\ IsSpace(Head(s)) THEN TrimStart(Tail(s)) ELSE s

RECURSIVE TrimEnd(_)
TrimEnd(s) ==
    IF s # <<>> /\ IsSpace(s[Len(s)]) THEN TrimEnd(SubSeq(s, 1, Len(s) - 1)) ELSE s

Trim(s) == TrimEnd(TrimStart(s))

KeepPrefix(s) == s

StripPrefix(s) ==
    IF s # <<>> /\ Head(s) = "BTC" THEN Tail(s) ELSE s

\* str::split('@'): the pieces between the separators, empty pieces included
RECURSIVE Split(_, _)
Split(s, acc) ==
    IF s = <<>> THEN <<acc>>
    ELSE IF Head(s) = "@" THEN <<acc>> \o Split(Tail(s), <<>>)
    ELSE Split(Tail(s), Append(acc, Head(s)))

parse_address_unchecked(address) ==
    LET addr == StripPrefix(Trim(address))
        parts == Split(addr, <<>>)
    IN  IF Len(parts) # 2 THEN Err("InvalidAddress")
        ELSE Ok([user |-> Trim(parts[1]), domain |-> Trim(parts[2])])

parse_address(address) ==
    LET addr == StripPrefix(Trim(address))
        parts == Split(addr, <<>>)
    IN  IF Len(parts) # 2 THEN Err("InvalidAddress")
        ELSE LET user == Trim(parts[1])
                 domain == Trim(parts[2])
             IN  IF user = <<>> \/ domain = <<>> THEN Err("InvalidAddress")
                 ELSE Ok([user |-> user, domain |-> domain])

\* a key made of the user alone
FormatHrnUserOnly(user, domain) == user

\* format!("{}@{}", user, domain)
FormatHrn(user, domain) == user \o <<"@">> \o domain

----------------------------------------------------------------------------
(* The inputs of the model *)

\* the address strings callers pass
AddrInputs ==
    { <<"a", "@", "d">>,
      <<"BTC", "a", "@", "d">>,
      <<" ", "b", "@", "d">> }

\* what the backend can answer: a payment info, or a typed error
Infos == {"info1", "info2"}
Errors == {"DnsError", "InvalidRecord"}

\* what self.resolve can return to the safety-check layer
EngineAnswers == {Ok(v) : v \in Infos} \cup {Err(e) : e \in Errors}

\* the concurrent callers of one resolver, and the clients of one Bip353Metrics
Callers == {"c1", "c2"}
Clients == {"m1", "m2", "m3"}

----------------------------------------------------------------------------
(* metrics.rs: the counters *)

CounterNames ==
    {"resolutions_total", "resolutions_success", "resolutions_failed",
     "cache_hits", "cache_misses", "address_reuse_detected"}

NewMetrics == [n \in CounterNames |-> 0]

\* AtomicU64::fetch_add(1, Relaxed): one indivisible read-modify-write; the
\* variant stores 1 over a zero and otherwise loses the update
FetchAddLost(m, ctr) == [m EXCEPT ![ctr] = IF @ = 0 THEN 1 ELSE @]
FetchAdd(m, ctr) == [m EXCEPT ![ctr] = @ + 1]

----------------------------------------------------------------------------
(* resolver.rs: AddressCache *)

\* cached_at.elapsed(): Err when the clock reads earlier than cached_at
Elapsed(cached_at, t) ==
    IF t >= cached_at THEN Ok(t - cached_at) ELSE Err("SystemTimeError")

\* entry.cached_at.elapsed().unwrap_or(Duration::MAX) < entry.ttl
Unexpired(entry, t) ==
    LET e == Elapsed(entry.cached_at, t)
    IN  e.tag = "Ok" /\ e.val < entry.ttl

\* AddressCache::get; the variant counts an entry aged exactly its TTL as valid
CacheGetInclusive(es, hrn, t) ==
    IF hrn \in DOMAIN es /\ t >= es[hrn].cached_at /\ t - es[hrn].cached_at <= es[hrn].ttl
    THEN Some(es[hrn].payment_info) ELSE None
CacheGet(es, hrn, t) ==
    IF hrn \in DOMAIN es /\ Unexpired(es[hrn], t)
    THEN Some(es[hrn].payment_info)
    ELSE None

\* AddressCache::insert: overwrite, stamped with the clock's reading and the TTL;
\* the variant keeps an entry that is already there
CacheInsertIfAbsent(es, hrn, payment_info, t, ttl) ==
    [k \in DOMAIN es \cup {hrn} |->
        IF k \in DOMAIN es
        THEN es[k]
        ELSE [payment_info |-> payment_info, cached_at |-> t, ttl |-> ttl]]
CacheInsert(es, hrn, payment_info, t, ttl) ==
    [k \in DOMAIN es \cup {hrn} |->
        IF k = hrn
        THEN [payment_info |-> payment_info, cached_at |-> t, ttl |-> ttl]
        ELSE es[k]]

\* AddressCache::invalidate; the variant drops every entry
CacheInvalidateAll(es, hrn) == <<>>
CacheInvalidate(es, hrn) == [k \in DOMAIN es \ {hrn} |-> es[k]]

\* entries.clear()
CacheClear(es) == <<>>

----------------------------------------------------------------------------
(* resolver.rs: Bip353Resolver::resolve_with_safety_checks, one caller's steps *)

IdleCall ==
    [pc |-> "idle", user |-> <<>>, domain |-> <<>>, hrn |-> <<>>,
     cached |-> None, resolved |-> None, result |-> None, log |-> <<>>]

IdleProc == [pc |-> "idle", op |-> "none", loc |-> <<>>, ret |-> None]

\* the parser, the engine and the boundary before anything was called
IdlePin == [input |-> <<>>, out |-> None, again |-> None]
IdleEng == [pc |-> "idle"]
\* what a foreign function gives back: a pointer, a bool, nothing, or a panic
\* that leaves the function instead of a return
RetPtr(id) == [tag |-> "ptr", ptr |-> id]
RetBool(b) == [tag |-> "bool", bool |-> b]
RetVoid == [tag |-> "void"]
RetPanic == [tag |-> "panic"]

\* a slot nothing was written to
Unwritten == -1

IdleInfo == [pc |-> "idle"]
IdleLock == [readers |-> {}, writer |-> {}]
IdleOuts == [user_out |-> Unwritten, domain_out |-> Unwritten]
IdleBcall == [fn |-> "none", args |-> <<>>, ret |-> RetVoid, via |-> <<>>, result |-> None]
OtherIdle ==
    /\ pin = IdlePin
    /\ eng = IdleEng
    /\ heap = <<>>
    /\ held = {}
    /\ rt = "unset"
    /\ outs = IdleOuts
    /\ bcall = IdleBcall
    /\ pinfo = IdleInfo
    /\ lk = IdleLock
    /\ th = <<>>
    /\ rt_made = 0

\* where a call goes after a miss, or first when there is no cache; the variant
\* counts the miss whether or not the resolver has metrics
AfterGetMissCounting == "miss"
AfterGetMiss == IF cfg.enable_metrics THEN "miss" ELSE "resolve"

\* where a call goes once the engine has answered Ok; the variant skips the insert
AfterResolveNoInsert == IF cfg.enable_metrics THEN "rec_total" ELSE "warn"
AfterResolve ==
    IF cfg.enable_cache THEN "insert"
    ELSE IF cfg.enable_metrics THEN "rec_total" ELSE "warn"

AfterInsert == IF cfg.enable_metrics THEN "rec_total" ELSE "warn"

\* the `?` of resolver.rs:293: the engine's error is the call's error; the
\* variant wraps every error as ImplError
PropagateAsImplError(e) == Err("ImplError")
Propagate(e) == Err(e)

\* resolver.rs:317-326: check_basic_warnings
check_basic_warnings(payment_info) == <<>>

\* resolver.rs:281-285 and 309-313: the SafePaymentInfo returned
SafePaymentInfo(payment_info, warnings, t) ==
    [payment_info |-> payment_info, warnings |-> warnings, last_checked |-> t]

Step(c, op) == last' = [op |-> op, who |-> c]

\* test-bip353.rs test_enhanced: parse the address, then call with (user, domain);
\* resolver.rs:271 builds the key
Call(c, address) ==
    /\ call[c].pc = "idle"
    /\ parse_address(address).tag = "Ok"
    /\ LET p == parse_address(address).val
       IN  call' = [call EXCEPT ![c] =
                [IdleCall EXCEPT !.pc = IF cfg.enable_cache THEN "get" ELSE "resolve",
                                 !.user = p.user, !.domain = p.domain,
                                 !.hrn = FormatHrn(p.user, p.domain)]]
    /\ Step(c, "call")
    /\ UNCHANGED <<now, cfg, entries, metrics, engine_calls, mproc, OtherVars>>

\* resolver.rs:274-275, 286: cache.get(&hrn); the variant drops the entry it
\* finds expired
LookupEvicting(c) ==
    /\ call[c].pc = "get"
    /\ LET cached == CacheGet(entries, call[c].hrn, now)
       IN  /\ call' = [call EXCEPT
                    ![c].cached = cached,
                    ![c].pc = IF cached.tag = "Some" THEN "hit" ELSE AfterGetMiss]
           /\ entries' = IF cached.tag = "Some" THEN entries
                          ELSE CacheInvalidate(entries, call[c].hrn)
    /\ Step(c, "get")
    /\ UNCHANGED <<now, cfg, metrics, engine_calls, mproc, OtherVars>>
Lookup(c) ==
    /\ call[c].pc = "get"
    /\ LET cached == CacheGet(entries, call[c].hrn, now)
       IN  call' = [call EXCEPT
                ![c].cached = cached,
                ![c].pc = IF cached.tag = "Some" THEN "hit" ELSE AfterGetMiss]
    /\ Step(c, "get")
    /\ UNCHANGED <<now, cfg, entries, metrics, engine_calls, mproc, OtherVars>>

\* resolver.rs:276-285: record the hit and return the cached value; the
\* variant also writes the entry back with a fresh stamp
HitReturnRefreshing(c) ==
    /\ call[c].pc = "hit"
    /\ metrics' = IF cfg.enable_metrics THEN FetchAdd(metrics, "cache_hits") ELSE metrics
    /\ entries' = CacheInsert(entries, call[c].hrn, call[c].cached.val, now, cfg.cache_ttl)
    /\ call' = [call EXCEPT
            ![c].pc = "done",
            ![c].log = IF cfg.enable_metrics THEN Append(@, "cache_hit") ELSE @,
            ![c].result = Ok(SafePaymentInfo(call[c].cached.val, <<>>, now))]
    /\ Step(c, "hit")
    /\ UNCHANGED <<now, cfg, engine_calls, mproc, OtherVars>>
HitReturn(c) ==
    /\ call[c].pc = "hit"
    /\ metrics' = IF cfg.enable_metrics THEN FetchAdd(metrics, "cache_hits") ELSE metrics
    /\ call' = [call EXCEPT
            ![c].pc = "done",
            ![c].log = IF cfg.enable_metrics THEN Append(@, "cache_hit") ELSE @,
            ![c].result = Ok(SafePaymentInfo(call[c].cached.val, <<>>, now))]
    /\ Step(c, "hit")
    /\ UNCHANGED <<now, cfg, entries, engine_calls, mproc, OtherVars>>

\* a miss counted on the hit counter
RecordMissAsHit(c) ==
    /\ call[c].pc = "miss"
    /\ metrics' = FetchAdd(metrics, "cache_hits")
    /\ call' = [call EXCEPT ![c].pc = "resolve", ![c].log = Append(@, "cache_miss")]
    /\ Step(c, "miss")
    /\ UNCHANGED <<now, cfg, entries, engine_calls, mproc, OtherVars>>

\* resolver.rs:286-288: record the miss
RecordMiss(c) ==
    /\ call[c].pc = "miss"
    /\ metrics' = FetchAdd(metrics, "cache_misses")
    /\ call' = [call EXCEPT ![c].pc = "resolve", ![c].log = Append(@, "cache_miss")]
    /\ Step(c, "miss")
    /\ UNCHANGED <<now, cfg, entries, engine_calls, mproc, OtherVars>>

\* resolver.rs:292-294: self.resolve(user, domain).await? ; the engine answers
\* with a payment info or a typed error, which `?` returns at once
EngineResolve(c) ==
    /\ call[c].pc = "resolve"
    /\ engine_calls' = engine_calls + 1
    /\ \E r \in EngineAnswers :
        call' = [call EXCEPT
            ![c].resolved = r,
            ![c].log = Append(@, "engine"),
            ![c].pc = IF r.tag = "Err" THEN "done" ELSE AfterResolve,
            ![c].result = IF r.tag = "Err" THEN Propagate(r.err) ELSE @]
    /\ Step(c, "resolve")
    /\ UNCHANGED <<now, cfg, entries, metrics, mproc, OtherVars>>

\* resolver.rs:297-299: cache.insert(hrn.clone(), payment_info.clone())
Insert(c) ==
    /\ call[c].pc = "insert"
    /\ entries' = CacheInsert(entries, call[c].hrn, call[c].resolved.val,
                              now, cfg.cache_ttl)
    /\ call' = [call EXCEPT ![c].pc = AfterInsert, ![c].log = Append(@, "insert")]
    /\ Step(c, "insert")
    /\ UNCHANGED <<now, cfg, metrics, engine_calls, mproc, OtherVars>>

\* resolver.rs:302-304 with metrics.rs:40: the first increment of
\* record_resolution_success
RecTotal(c) ==
    /\ call[c].pc = "rec_total"
    /\ metrics' = FetchAdd(metrics, "resolutions_total")
    /\ call' = [call EXCEPT ![c].pc = "rec_success",
                            ![c].log = Append(@, "resolutions_total")]
    /\ Step(c, "rec_total")
    /\ UNCHANGED <<now, cfg, entries, engine_calls, mproc, OtherVars>>

\* metrics.rs:41: the second increment of record_resolution_success
RecSuccess(c) ==
    /\ call[c].pc = "rec_success"
    /\ metrics' = FetchAdd(metrics, "resolutions_success")
    /\ call' = [call EXCEPT ![c].pc = "warn",
                            ![c].log = Append(@, "resolutions_success")]
    /\ Step(c, "rec_success")
    /\ UNCHANGED <<now, cfg, entries, engine_calls, mproc, OtherVars>>

\* resolver.rs:306-313: the warning pass and the Ok return
WarnReturn(c) ==
    /\ call[c].pc = "warn"
    /\ call' = [call EXCEPT
            ![c].pc = "done",
            ![c].result = Ok(SafePaymentInfo(call[c].resolved.val,
                                             check_basic_warnings(call[c].resolved.val),
                                             now))]
    /\ Step(c, "warn")
    /\ UNCHANGED <<now, cfg, entries, metrics, engine_calls, mproc, OtherVars>>

\* resolver.rs:337-341: invalidate_cache(hrn), the key taken as given
InvalidateCache(h) ==
    /\ entries' = IF cfg.enable_cache THEN CacheInvalidate(entries, h) ELSE entries
    /\ last' = [op |-> "invalidate_cache", who |-> h]
    /\ UNCHANGED <<now, cfg, metrics, engine_calls, call, mproc, OtherVars>>

\* resolver.rs:329-334: clear_cache
ClearCache ==
    /\ entries' = IF cfg.enable_cache THEN CacheClear(entries) ELSE entries
    /\ last' = [op |-> "clear_cache", who |-> "all"]
    /\ UNCHANGED <<now, cfg, metrics, engine_calls, call, mproc, OtherVars>>

\* the system clock moves on
Tick ==
    /\ now < MaxTime
    /\ now' = now + 1
    /\ last' = [op |-> "tick", who |-> "clock"]
    /\ UNCHANGED <<cfg, entries, metrics, engine_calls, call, mproc, OtherVars>>

\* SystemTime is not monotonic: the clock is set back
ClockBack ==
    /\ now > 0
    /\ \E t \in 0..(now - 1) : now' = t
    /\ last' = [op |-> "clock_back", who |-> "clock"]
    /\ UNCHANGED <<cfg, entries, metrics, engine_calls, call, mproc, OtherVars>>

Configs == [enable_cache : BOOLEAN, cache_ttl : 0..MaxTtl, enable_metrics : BOOLEAN]

\* resolver.rs:148-175: with_enhanced_config
Init ==
    /\ now = 0
    /\ cfg \in Configs
    /\ entries = <<>>
    /\ metrics = NewMetrics
    /\ engine_calls = 0
    /\ call = [c \in Callers |-> IdleCall]
    /\ last = [op |-> "new", who |-> "resolver"]
    /\ mproc = [p \in Clients |-> IdleProc]
    /\ OtherIdle

Next ==
    \/ \E c \in Callers, a \in AddrInputs : Call(c, a)
    \/ \E c \in Callers : Lookup(c)
    \/ \E c \in Callers : HitReturn(c)
    \/ \E c \in Callers : RecordMiss(c)
    \/ \E c \in Callers : EngineResolve(c)
    \/ \E c \in Callers : Insert(c)
    \/ \E c \in Callers : RecTotal(c)
    \/ \E c \in Callers : RecSuccess(c)
    \/ \E c \in Callers : WarnReturn(c)
    \/ \E h \in AddrInputs : InvalidateCache(h)
    \/ ClearCache
    \/ Tick
    \/ ClockBack

Spec == Init /\ [][Next]_vars

----------------------------------------------------------------------------
(* metrics.rs: a Bip353Metrics shared by clients that call it concurrently. *)
(* `metrics` holds its counters; each client makes one call, and every      *)
(* atomic operation of the call is one step.                                *)

RecordOps ==
    {"record_resolution_success", "record_resolution_failure",
     "record_cache_hit", "record_cache_miss", "record_address_reuse"}
SnapshotOps == {"get_resolution_stats", "get_cache_stats"}

\* (x as f64) / (y as f64) kept as the fraction <<x, y>>; 0.0 is <<0, 1>>; the
\* variant divides without looking at the denominator
RateUnguarded(n, d) == <<n, d>>
Rate(n, d) == IF d > 0 THEN <<n, d>> ELSE <<0, 1>>

RateIsZero(r) == r[1] = 0 /\ r[2] # 0

\* metrics.rs:71-76
ResolutionStats(total, success, failed) ==
    [total |-> total, success |-> success, failed |-> failed,
     success_rate |-> Rate(success, total)]

\* metrics.rs:83-90
CacheStats(hits, misses) ==
    LET total == hits + misses
    IN  [hits |-> hits, misses |-> misses, total |-> total,
         hit_rate |-> Rate(hits, total)]

MFrame == UNCHANGED <<now, cfg, entries, engine_calls, call, last, OtherVars>>

\* a client starts one call on the shared Bip353Metrics
MCall(p, op) ==
    /\ mproc[p].pc = "idle"
    /\ mproc' = [mproc EXCEPT ![p] = [IdleProc EXCEPT !.pc = "first", !.op = op]]
    /\ UNCHANGED metrics
    /\ MFrame

\* one fetch_add of a record_* call, which then stands at `next`
Increment(p, ctr, next) ==
    /\ metrics' = FetchAdd(metrics, ctr)
    /\ mproc' = [mproc EXCEPT ![p].pc = next]
    /\ MFrame

\* one load of a snapshot call, which then stands at `next`
Load(p, ctr, next) ==
    /\ mproc' = [mproc EXCEPT ![p].loc = Append(@, metrics[ctr]), ![p].pc = next]
    /\ UNCHANGED metrics
    /\ MFrame

\* metrics.rs:40; the variant forgets the increment of resolutions_total
record_resolution_success_untotalled(p) ==
    /\ mproc[p].op = "record_resolution_success" /\ mproc[p].pc = "first"
    /\ mproc' = [mproc EXCEPT ![p].pc = "second"]
    /\ UNCHANGED metrics
    /\ MFrame
record_resolution_success_total(p) ==
    /\ mproc[p].op = "record_resolution_success" /\ mproc[p].pc = "first"
    /\ Increment(p, "resolutions_total", "second")

\* metrics.rs:41
record_resolution_success_success(p) ==
    /\ mproc[p].op = "record_resolution_success" /\ mproc[p].pc = "second"
    /\ Increment(p, "resolutions_success", "done")

\* metrics.rs:46; the variant counts the failure where the total is due
record_resolution_failure_failed_first(p) ==
    /\ mproc[p].op = "record_resolution_failure" /\ mproc[p].pc = "first"
    /\ Increment(p, "resolutions_failed", "second")
record_resolution_failure_total(p) ==
    /\ mproc[p].op = "record_resolution_failure" /\ mproc[p].pc = "first"
    /\ Increment(p, "resolutions_total", "second")

\* metrics.rs:47
record_resolution_failure_failed(p) ==
    /\ mproc[p].op = "record_resolution_failure" /\ mproc[p].pc = "second"
    /\ Increment(p, "resolutions_failed", "done")

\* metrics.rs:51-53
record_cache_hit(p) ==
    /\ mproc[p].op = "record_cache_hit" /\ mproc[p].pc = "first"
    /\ Increment(p, "cache_hits", "done")

\* metrics.rs:56-58
record_cache_miss(p) ==
    /\ mproc[p].op = "record_cache_miss" /\ mproc[p].pc = "first"
    /\ Increment(p, "cache_misses", "done")

\* metrics.rs:61-63
record_address_reuse(p) ==
    /\ mproc[p].op = "record_address_reuse" /\ mproc[p].pc = "first"
    /\ Increment(p, "address_reuse_detected", "done")

\* metrics.rs:67
get_resolution_stats_total(p) ==
    /\ mproc[p].op = "get_resolution_stats" /\ mproc[p].pc = "first"
    /\ Load(p, "resolutions_total", "second")

\* metrics.rs:68
get_resolution_stats_success(p) ==
    /\ mproc[p].op = "get_resolution_stats" /\ mproc[p].pc = "second"
    /\ Load(p, "resolutions_success", "third")

\* metrics.rs:69-76: the last load and the snapshot built from the three
get_resolution_stats_failed(p) ==
    /\ mproc[p].op = "get_resolution_stats" /\ mproc[p].pc = "third"
    /\ mproc' = [mproc EXCEPT
            ![p].loc = Append(@, metrics["resolutions_failed"]),
            ![p].pc = "done",
            ![p].ret = Some(ResolutionStats(mproc[p].loc[1], mproc[p].loc[2],
                                            metrics["resolutions_failed"]))]
    /\ UNCHANGED metrics
    /\ MFrame

\* metrics.rs:81
get_cache_stats_hits(p) ==
    /\ mproc[p].op = "get_cache_stats" /\ mproc[p].pc = "first"
    /\ Load(p, "cache_hits", "second")

\* metrics.rs:82-90: the second load and the snapshot built from the two
get_cache_stats_misses(p) ==
    /\ mproc[p].op = "get_cache_stats" /\ mproc[p].pc = "second"
    /\ mproc' = [mproc EXCEPT
            ![p].loc = Append(@, metrics["cache_misses"]),
            ![p].pc = "done",
            ![p].ret = Some(CacheStats(mproc[p].loc[1], metrics["cache_misses"]))]
    /\ UNCHANGED metrics
    /\ MFrame

\* metrics.rs:34-36: Bip353Metrics::new, all counters zero
InitMetrics ==
    /\ now = 0
    /\ cfg = [enable_cache |-> FALSE, cache_ttl |-> 0, enable_metrics |-> FALSE]
    /\ entries = <<>>
    /\ metrics = NewMetrics
    /\ engine_calls = 0
    /\ call = [c \in Callers |-> IdleCall]
    /\ last = [op |-> "new", who |-> "metrics"]
    /\ mproc = [p \in Clients |-> IdleProc]
    /\ OtherIdle

NextMetrics ==
    \/ \E p \in Clients, op \in RecordOps \cup SnapshotOps : MCall(p, op)
    \/ \E p \in Clients : record_resolution_success_total(p)
    \/ \E p \in Clients : record_resolution_success_success(p)
    \/ \E p \in Clients : record_resolution_failure_total(p)
    \/ \E p \in Clients : record_resolution_failure_failed(p)
    \/ \E p \in Clients : record_cache_hit(p)
    \/ \E p \in Clients : record_cache_miss(p)
    \/ \E p \in Clients : record_address_reuse(p)
    \/ \E p \in Clients : get_resolution_stats_total(p)
    \/ \E p \in Clients : get_resolution_stats_success(p)
    \/ \E p \in Clients : get_resolution_stats_failed(p)
    \/ \E p \in Clients : get_cache_stats_hits(p)
    \/ \E p \in Clients : get_cache_stats_misses(p)

SpecMetrics == InitMetrics /\ [][NextMetrics]_vars

----------------------------------------------------------------------------
(* Properties of the safety-check layer and the cache, checked under Spec *)

Hit(c) == call[c].cached.tag = "Some"
Miss(c) ==
    /\ cfg.enable_cache
    /\ call[c].pc \notin {"idle", "get"}
    /\ call[c].cached.tag = "None"
Failed(c) == call[c].pc = "done" /\ call[c].result.tag = "Err"
Succeeded(c) == call[c].pc = "done" /\ call[c].result.tag = "Ok"

IsPrefix(s, t) == Len(s) <= Len(t) /\ s = SubSeq(t, 1, Len(s))

Bumped(m, ctr) == [m EXCEPT ![ctr] = @ + 1]

\* the keys a cache of this model can hold or be asked for
Keys ==
    AddrInputs \cup
    {FormatHrn(parse_address(a).val.user, parse_address(a).val.domain) : a \in AddrInputs}

C1_HitState ==
    \A c \in Callers :
        (call[c].pc = "done" /\ Hit(c)) =>
            /\ call[c].result.tag = "Ok"
            /\ call[c].result.val.payment_info = call[c].cached.val
            /\ call[c].result.val.warnings = <<>>
            /\ call[c].resolved = None
            /\ call[c].log = IF cfg.enable_metrics THEN <<"cache_hit">> ELSE <<>>

C1_HitSteps ==
    \A c \in Callers :
        /\ (call[c].pc = "get" /\ call'[c].pc = "hit") =>
                /\ call'[c].cached = Some(entries[call[c].hrn].payment_info)
                /\ entries' = entries
                /\ engine_calls' = engine_calls
                /\ metrics' = metrics
        /\ (call[c].pc = "hit" /\ call'[c].pc = "done") =>
                /\ entries' = entries
                /\ engine_calls' = engine_calls
                /\ metrics' = IF cfg.enable_metrics
                              THEN Bumped(metrics, "cache_hits") ELSE metrics

\* C1: on a cache hit the call returns the cached PaymentInfo with an empty
\* warning list; its steps never invoke the backend, leave the cache as it is
\* and add exactly one to cache_hits when metrics are enabled.
C1_CacheHit == []C1_HitState /\ [][C1_HitSteps]_vars

C1_Witness ==
    \E c \in Callers :
        /\ call[c].pc = "done" /\ Hit(c)
        /\ cfg.enable_metrics /\ metrics["cache_hits"] = 1
        /\ call[c].hrn \in DOMAIN entries

\* what a call that missed does, in order, with both features enabled or not
MissOrder ==
    (IF cfg.enable_metrics THEN <<"cache_miss">> ELSE <<>>)
    \o <<"engine", "insert">>
    \o (IF cfg.enable_metrics THEN <<"resolutions_total", "resolutions_success">> ELSE <<>>)

C2_MissState ==
    \A c \in Callers :
        Miss(c) =>
            /\ IsPrefix(call[c].log, MissOrder)
            /\ Succeeded(c) =>
                /\ call[c].log = MissOrder
                /\ call[c].result.val.payment_info = call[c].resolved.val
                /\ call[c].result.val.warnings = <<>>

C2_MissSteps ==
    \A c \in Callers :
        /\ (call[c].pc = "miss" /\ call'[c].pc # "miss") =>
                metrics' = Bumped(metrics, "cache_misses")
        /\ (call[c].pc = "resolve" /\ call'[c].pc # "resolve") =>
                engine_calls' = engine_calls + 1
        /\ (call[c].pc = "insert" /\ call'[c].pc # "insert") =>
                /\ DOMAIN entries' = DOMAIN entries \cup {call[c].hrn}
                /\ entries'[call[c].hrn].payment_info = call[c].resolved.val
                /\ \A k \in DOMAIN entries \ {call[c].hrn} : entries'[k] = entries[k]
        /\ (call[c].pc = "rec_total" /\ call'[c].pc # "rec_total") =>
                metrics' = Bumped(metrics, "resolutions_total")
        /\ (call[c].pc = "rec_success" /\ call'[c].pc # "rec_success") =>
                metrics' = Bumped(metrics, "resolutions_success")

\* C2: a call that misses and whose resolution succeeds records the miss,
\* invokes the engine once, inserts the result under its key, adds one to
\* resolutions_total and to resolutions_success, in this order, and returns
\* the result with an empty warning list.
C2_MissThenSuccess == []C2_MissState /\ [][C2_MissSteps]_vars

C2_Witness ==
    \E c \in Callers :
        /\ Miss(c) /\ Succeeded(c) /\ cfg.enable_metrics
        /\ call[c].log = <<"cache_miss", "engine", "insert",
                           "resolutions_total", "resolutions_success">>
        /\ metrics["resolutions_success"] = 1

\* C3: with metrics configured, every failed resolution has been counted in
\* resolutions_total and resolutions_failed by the time the error is returned.
C3_FailureRecorded ==
    cfg.enable_metrics =>
        LET failures == Cardinality({c \in Callers : Failed(c)})
        IN  /\ metrics["resolutions_failed"] >= failures
            /\ metrics["resolutions_total"] >= failures

C4_FailState ==
    \A c \in Callers :
        call[c].resolved.tag = "Err" =>
            /\ call[c].pc = "done"
            /\ call[c].result = Err(call[c].resolved.err)
            /\ call[c].result.tag # "Ok"

C4_FailSteps ==
    \A c \in Callers :
        (call[c].pc = "resolve" /\ call'[c].resolved.tag = "Err") =>
            /\ entries' = entries
            /\ call'[c].pc = "done"

\* C4: when the engine fails, the call returns exactly the engine's typed
\* error, never a success value, and the failing step leaves every cache
\* entry as it was.
C4_FailurePropagates == []C4_FailState /\ [][C4_FailSteps]_vars

C4_Witness ==
    \E c \in Callers :
        /\ Failed(c) /\ call[c].resolved.tag = "Err"
        /\ call[c].hrn \in DOMAIN entries

\* the clock's reading minus the entry's stamp; negative when the clock was set back
Age(e) == now - e.cached_at

\* C5 as stated: a get returns v while the time since the insert is below the
\* TTL, and absent once it is the TTL or more.
C5_TtlLawAsStated ==
    \A k \in DOMAIN entries :
        LET e == entries[k]
        IN  /\ Age(e) < cfg.cache_ttl => CacheGet(entries, k, now) = Some(e.payment_info)
            /\ Age(e) >= cfg.cache_ttl => CacheGet(entries, k, now) = None

C5_TtlState ==
    \A k \in DOMAIN entries :
        LET e == entries[k]
        IN  /\ e.ttl = cfg.cache_ttl
            /\ (0 <= Age(e) /\ Age(e) < cfg.cache_ttl) =>
                    CacheGet(entries, k, now) = Some(e.payment_info)
            /\ (Age(e) >= cfg.cache_ttl \/ Age(e) < 0) =>
                    CacheGet(entries, k, now) = None

C5_TtlSteps ==
    \A c \in Callers :
        /\ (call[c].pc = "insert" /\ call'[c].pc # "insert") =>
                entries'[call[c].hrn] =
                    [payment_info |-> call[c].resolved.val,
                     cached_at |-> now, ttl |-> cfg.cache_ttl]
        /\ (call[c].pc = "get" /\ call'[c].pc # "get") =>
                call'[c].cached =
                    IF /\ call[c].hrn \in DOMAIN entries
                       /\ 0 <= Age(entries[call[c].hrn])
                       /\ Age(entries[call[c].hrn]) < cfg.cache_ttl
                    THEN Some(entries[call[c].hrn].payment_info)
                    ELSE None

\* C5 (amended): an insert stamps the entry with the clock's reading and the
\* cache's TTL; a get returns v while the clock reads at least the stamp and
\* less than stamp + TTL, and absent once it reads stamp + TTL or more, or
\* reads earlier than the stamp.
C5_TtlLaw == []C5_TtlState /\ [][C5_TtlSteps]_vars

C5_Witness ==
    /\ last.op = "get"
    /\ Miss(last.who)
    /\ call[last.who].hrn \in DOMAIN entries
    /\ cfg.cache_ttl > 0
    /\ Age(entries[call[last.who].hrn]) < 0

C6_RemovalState ==
    /\ last.op = "invalidate_cache" =>
            /\ last.who \notin DOMAIN entries
            /\ CacheGet(entries, last.who, now) = None
    /\ last.op = "clear_cache" =>
            /\ entries = <<>>
            /\ \A k \in Keys : CacheGet(entries, k, now) = None
    /\ ~cfg.enable_cache => entries = <<>>
    /\ ENABLED ClearCache
    /\ \A h \in AddrInputs : ENABLED InvalidateCache(h)

C6_RemovalSteps ==
    /\ last'.op = "invalidate_cache" =>
            /\ DOMAIN entries' = DOMAIN entries \ {last'.who}
            /\ \A k \in DOMAIN entries' : entries'[k] = entries[k]
    /\ (last'.op \in {"invalidate_cache", "clear_cache"} /\ entries = <<>>) =>
            entries' = <<>>
    /\ last'.op \in {"invalidate_cache", "clear_cache"} =>
            UNCHANGED <<now, cfg, metrics, engine_calls, call>>

\* C6: after invalidate(k) a get of k is absent and every other entry is as
\* before; after clear the map is empty and every get is absent; both can
\* always be called, and on an empty or disabled cache they change nothing.
C6_Removal == []C6_RemovalState /\ [][C6_RemovalSteps]_vars

C6_Witness ==
    /\ last.op = "invalidate_cache"
    /\ last.who = <<"a", "@", "d">>
    /\ DOMAIN entries = {<<"b", "@", "d">>}
    /\ \E c \in Callers : call[c].hrn = <<"a", "@", "d">> /\ call[c].pc = "done" /\ Miss(c)
                          /\ Succeeded(c)

\* C7: the cache key is the canonical "user@domain": every stored key is the
\* canonical form of an address, and invalidate_cache called with any form of
\* an address leaves no entry under that address's canonical key.
C7_CanonicalKey ==
    /\ \A k \in DOMAIN entries :
            /\ parse_address(k).tag = "Ok"
            /\ k = FormatHrn(parse_address(k).val.user, parse_address(k).val.domain)
    /\ (last.op = "invalidate_cache" /\ parse_address(last.who).tag = "Ok") =>
            LET p == parse_address(last.who).val
            IN  FormatHrn(p.user, p.domain) \notin DOMAIN entries

----------------------------------------------------------------------------
(* Properties of the metrics collector, checked under SpecMetrics *)

\* the record_resolution_* calls that have added to resolutions_total and not
\* yet to resolutions_success / resolutions_failed
BetweenIncrements ==
    {p \in Clients :
        /\ mproc[p].op \in {"record_resolution_success", "record_resolution_failure"}
        /\ mproc[p].pc = "second"}

\* C8 as stated: in every reachable state, also between the two increments of
\* a record_resolution_* call, resolutions_total = success + failed.
C8_MetricsLawAsStated ==
    metrics["resolutions_total"] =
        metrics["resolutions_success"] + metrics["resolutions_failed"]

\* C8 (amended): in every reachable state resolutions_total = success + failed
\* + the number of record_resolution_* calls between their two increments; so
\* the equality holds whenever no such call is in flight.
C8_MetricsLaw ==
    metrics["resolutions_total"] =
        metrics["resolutions_success"] + metrics["resolutions_failed"]
        + Cardinality(BetweenIncrements)

C8_Witness ==
    /\ Cardinality(BetweenIncrements) = 2
    /\ metrics["resolutions_failed"] = 1
    /\ metrics["resolutions_total"] = 3

\* the counters a record_* call adds to, in order
Adds(op) ==
    CASE op = "record_resolution_success" -> <<"resolutions_total", "resolutions_success">>
      [] op = "record_resolution_failure" -> <<"resolutions_total", "resolutions_failed">>
      [] op = "record_cache_hit" -> <<"cache_hits">>
      [] op = "record_cache_miss" -> <<"cache_misses">>
      [] op = "record_address_reuse" -> <<"address_reuse_detected">>
      [] OTHER -> <<>>

\* how many of its increments a client's call has made
Made(p) ==
    CASE mproc[p].op \notin RecordOps -> 0
      [] mproc[p].pc = "done" -> Len(Adds(mproc[p].op))
      [] mproc[p].pc = "second" -> 1
      [] OTHER -> 0

\* the clients whose call has made its increment of ctr
Applied(ctr) ==
    {p \in Clients : \E i \in 1..Made(p) : Adds(mproc[p].op)[i] = ctr}

C9_Counted == \A ctr \in CounterNames : metrics[ctr] = Cardinality(Applied(ctr))

C9_Monotone == \A ctr \in CounterNames : metrics'[ctr] >= metrics[ctr]

\* C9: no update is lost: under every interleaving each counter equals the
\* number of increments made on it, so N concurrent record_* calls leave it N
\* higher, and no counter ever decreases.
C9_NoLostUpdates == []C9_Counted /\ [][C9_Monotone]_vars

C9_Witness ==
    /\ \A p \in Clients : mproc[p].pc = "done" /\ mproc[p].op = "record_cache_hit"
    /\ metrics["cache_hits"] = Cardinality(Clients)

\* C10: a snapshot is computed from the counters it read: CacheStats.total is
\* hits + misses, and success_rate / hit_rate are 0 when their denominator is 0.
C10_Snapshots ==
    \A p \in Clients :
        mproc[p].pc = "done" =>
            /\ mproc[p].op = "get_cache_stats" =>
                LET r == mproc[p].ret.val
                IN  /\ r.hits = mproc[p].loc[1]
                    /\ r.misses = mproc[p].loc[2]
                    /\ r.total = r.hits + r.misses
                    /\ (r.hits + r.misses = 0) => RateIsZero(r.hit_rate)
                    /\ (r.hits + r.misses > 0) => r.hit_rate = <<r.hits, r.hits + r.misses>>
            /\ mproc[p].op = "get_resolution_stats" =>
                LET r == mproc[p].ret.val
                IN  /\ r.total = mproc[p].loc[1]
                    /\ r.success = mproc[p].loc[2]
                    /\ r.failed = mproc[p].loc[3]
                    /\ (r.total = 0) => RateIsZero(r.success_rate)
                    /\ (r.total > 0) => r.success_rate = <<r.success, r.total>>

C10_Witness ==
    \E p, q \in Clients :
        /\ mproc[p].pc = "done" /\ mproc[p].op = "get_resolution_stats"
        /\ mproc[p].ret.val.total = 0 /\ mproc[p].ret.val.success = 1
        /\ mproc[q].pc = "done" /\ mproc[q].op = "get_cache_stats"
        /\ mproc[q].ret.val.total = 0

----------------------------------------------------------------------------
(* lib.rs: parse_address applied to every short text *)

\* the longest text given to parse_address
MaxLen == 5

\* white space, the currency sign, the separator, and one ordinary character
Alphabet == {" ", "BTC", "@", "a"}

Texts == UNION {[1..n -> Alphabet] : n \in 0..MaxLen}

PFrame == UNCHANGED <<now, cfg, entries, metrics, engine_calls, call, last, mproc,
                      eng, heap, held, rt, outs, bcall, pinfo, lk, th, rt_made>>

\* parse_address(input)
Parse ==
    /\ pin.out = None
    /\ pin' = [pin EXCEPT !.out = Some(parse_address(pin.input))]
    /\ PFrame

\* parse_address(&format!("{}@{}", user, domain)) of a successful result
Reparse ==
    /\ pin.out # None /\ pin.out.val.tag = "Ok"
    /\ pin.again = None
    /\ pin' = [pin EXCEPT !.again =
                 Some(parse_address(FormatHrn(pin.out.val.val.user, pin.out.val.val.domain)))]
    /\ PFrame

InitParse ==
    /\ now = 0
    /\ cfg = [enable_cache |-> FALSE, cache_ttl |-> 0, enable_metrics |-> FALSE]
    /\ entries = <<>>
    /\ metrics = NewMetrics
    /\ engine_calls = 0
    /\ call = [c \in Callers |-> IdleCall]
    /\ last = [op |-> "new", who |-> "parser"]
    /\ mproc = [p \in Clients |-> IdleProc]
    /\ pin \in [input : Texts, out : {None}, again : {None}]
    /\ eng = IdleEng
    /\ heap = <<>>
    /\ held = {}
    /\ rt = "unset"
    /\ outs = IdleOuts
    /\ bcall = IdleBcall
    /\ pinfo = IdleInfo
    /\ lk = IdleLock
    /\ th = <<>>
    /\ rt_made = 0

NextParse == Parse \/ Reparse

SpecParse == InitParse /\ [][NextParse]_vars

----------------------------------------------------------------------------
(* C18 *)

AllSpace(s) == \A i \in 1..Len(s) : IsSpace(s[i])

AtCount(s) == Cardinality({i \in 1..Len(s) : s[i] = "@"})

\* the text is  ws1 (sign)? u @ d ws2  with ws1 of length a, ws2 of length b,
\* the sign there iff p = 1, and the separator at position i
Shaped(s, a, p, i, b) ==
    /\ a + p < i /\ i <= Len(s) - b
    /\ s[i] = "@" /\ AtCount(s) = 1
    /\ AllSpace(SubSeq(s, 1, a))
    /\ AllSpace(SubSeq(s, Len(s) - b + 1, Len(s)))
    /\ (p = 1 => s[a + 1] = "BTC")

UserOf(s, a, p, i) == SubSeq(s, a + p + 1, i - 1)
DomainOf(s, i, b) == SubSeq(s, i + 1, Len(s) - b)

\* a currency sign that follows the leading white space is the prefix: a user
\* part is read without prefix only when it does not begin with the sign
Unprefixed(u) == TrimStart(u) = <<>> \/ Head(TrimStart(u)) # "BTC"

----------------------------------------------------------------------------
(* C19 *)

\* C19: parsing the "user@domain" text built from a successful result gives
\* that same result again
C19_Canonical ==
    pin.again # None => pin.again = pin.out

----------------------------------------------------------------------------
(* C20 *)

\* the text left once white space around it and one leading sign are removed
Bare(s) == StripPrefix(Trim(s))

\* the pieces before and after the only separator
LeftOf(s) == SubSeq(s, 1, (CHOOSE i \in 1..Len(s) : s[i] = "@") - 1)
RightOf(s) == SubSeq(s, (CHOOSE i \in 1..Len(s) : s[i] = "@") + 1, Len(s))

Malformed(s) ==
    \/ AtCount(Bare(s)) # 1
    \/ AllSpace(LeftOf(Bare(s)))
    \/ AllSpace(RightOf(Bare(s)))

\* C20: a text that, after trimming and prefix removal, has no "@" or more
\* than one, or whose user or domain part is empty after trimming, fails with
\* the invalid-address error, and no successful result has an empty part
C20_ParseFails ==
    pin.out # None =>
        /\ Malformed(pin.input) => pin.out.val = Err("InvalidAddress")
        /\ pin.out.val.tag = "Ok" =>
              pin.out.val.val.user # <<>> /\ pin.out.val.val.domain # <<>>

\* "a@ " was refused: one separator, a blank domain part
C20_Witness ==
    /\ pin.input = <<"a", "@", " ">>
    /\ pin.out = Some(Err("InvalidAddress"))

----------------------------------------------------------------------------
(* resolver.rs: Bip353Resolver::resolve and resolve_address, with the time the
   backend takes *)

\* the longest timeout a configuration carries, in clock ticks
MaxTimeout == 1

Networks == {"Bitcoin", "Testnet", "Signet", "Regtest"}

\* ResolverConfig: the fields resolve can read
ResolverConfigs == [network : Networks, timeout_ms : 1..MaxTimeout]

\* the arguments of PaymentInstructions::parse; the variant always asks for
\* the main network
BackendArgsMainnet(config, user, domain) ==
    [hrn |-> FormatHrn(user, domain), network |-> "Bitcoin",
     resolver |-> "dns_resolver", pop_callbacks |-> TRUE]
BackendArgs(config, user, domain) ==
    [hrn |-> FormatHrn(user, domain), network |-> config.network,
     resolver |-> "dns_resolver", pop_callbacks |-> TRUE]

\* bitcoin_payment_instructions::ParseError, as error.rs:35-66 matches on it
ParseErrors ==
    {"InvalidOnChain", "InvalidBolt11", "InvalidBolt12", "WrongNetwork",
     "InconsistentInstructions", "InvalidInstructions", "UnknownPaymentInstructions",
     "UnknownRequiredParameter", "HrnResolutionError", "InstructionsExpired"}

\* what PaymentInstructions::parse can return
ParseResults == {Ok(v) : v \in Infos} \cup {Err(e) : e \in ParseErrors}

\* error.rs:33-68: impl From<ParseError> for Bip353Error; the variant has no
\* arm of its own for a failed name resolution
FromParseErrorOneArm(err) == "InvalidRecord"
FromParseError(err) ==
    CASE err = "InvalidOnChain" -> "InvalidRecord"
      [] err = "InvalidBolt11" -> "InvalidRecord"
      [] err = "InvalidBolt12" -> "InvalidRecord"
      [] err = "WrongNetwork" -> "InvalidRecord"
      [] err = "InconsistentInstructions" -> "InvalidRecord"
      [] err = "InvalidInstructions" -> "InvalidRecord"
      [] err = "UnknownPaymentInstructions" -> "InvalidRecord"
      [] err = "UnknownRequiredParameter" -> "InvalidRecord"
      [] err = "HrnResolutionError" -> "DnsError"
      [] err = "InstructionsExpired" -> "InvalidRecord"

\* resolver.rs:187: .map_err(Bip353Error::from)
map_err(r) == IF r.tag = "Err" THEN Err(FromParseError(r.err)) ELSE r

\* the texts given to resolve_address
EngineAddrs == AddrInputs \cup { <<"a">>, <<"@", "d">> }

EFrame == UNCHANGED <<now, cfg, entries, metrics, call, last, mproc,
                      pin, heap, held, rt, outs, bcall, pinfo, lk, th, rt_made>>

\* resolve(user, domain) up to the await on the backend
ResolveStart(config, user, domain) ==
    [pc |-> "waiting", config |-> config, args |-> Some(BackendArgs(config, user, domain)),
     started |-> now, result |-> None, input |-> <<>>, parsed |-> None]

\* resolve_address(address): parse, then resolve
ResolveAddress(address) ==
    /\ eng.pc = "idle"
    /\ LET parsed == parse_address(address)
       IN  /\ eng' = IF parsed.tag = "Err"
                     THEN [eng EXCEPT !.pc = "done", !.result = Some(parsed),
                                      !.input = address]
                     ELSE [ResolveStart(eng.config, parsed.val.user, parsed.val.domain)
                                EXCEPT !.input = address]
           /\ engine_calls' = IF parsed.tag = "Err" THEN engine_calls
                              ELSE engine_calls + 1
    /\ EFrame

\* the backend answers, whenever it does, and resolve returns: its failure
\* translated, its instructions made a payment info
BackendAnswer(answer) ==
    /\ eng.pc = "waiting"
    /\ eng' = [eng EXCEPT !.pc = "done", !.parsed = Some(answer),
                          !.result = Some(map_err(answer))]
    /\ UNCHANGED engine_calls
    /\ EFrame

InitEngine ==
    /\ now = 0
    /\ cfg = [enable_cache |-> FALSE, cache_ttl |-> 0, enable_metrics |-> FALSE]
    /\ entries = <<>>
    /\ metrics = NewMetrics
    /\ engine_calls = 0
    /\ call = [c \in Callers |-> IdleCall]
    /\ last = [op |-> "new", who |-> "engine"]
    /\ mproc = [p \in Clients |-> IdleProc]
    /\ pin = IdlePin
    /\ eng \in [pc : {"idle"}, config : ResolverConfigs, args : {None},
                started : {0}, result : {None}, input : {<<>>}, parsed : {None}]
    /\ heap = <<>>
    /\ held = {}
    /\ rt = "unset"
    /\ outs = IdleOuts
    /\ bcall = IdleBcall
    /\ pinfo = IdleInfo
    /\ lk = IdleLock
    /\ th = <<>>
    /\ rt_made = 0

NextEngine ==
    \/ \E address \in EngineAddrs : ResolveAddress(address)
    \/ \E answer \in ParseResults : BackendAnswer(answer)
    \/ Tick

SpecEngine == InitEngine /\ [][NextEngine]_vars

----------------------------------------------------------------------------
(* C17 *)

\* C17: the configured timeout bounds every resolve: no resolve is still
\* waiting for the backend once the configured timeout has elapsed since the
\* call began
C17_TimeoutBounds ==
    eng.pc = "waiting" => now - eng.started < eng.config.timeout_ms

----------------------------------------------------------------------------
(* ffi.rs: the foreign boundary. Every allocation the boundary makes is a
   record of heap, numbered from 1; NULL is 0. An allocation counts how many
   times it was freed. *)

\* the most allocations the boundary makes in one run
MaxAllocs == 4

NULL == 0

\* a C string argument: a null pointer, bytes that are not UTF-8, or a text
CNull == [tag |-> "null"]
CInvalid == [tag |-> "invalid"]
CText(t) == [tag |-> "text", val |-> t]

\* CStr::from_ptr(p).to_str()
to_str(c) == IF c.tag = "text" THEN Ok(c.val) ELSE Err("Utf8Error")

\* CString::new(t) fails exactly when t holds a NUL. The texts that reach it
\* are parts of a C string, the display of an address, invoice or offer, a
\* payment type's name and the fixed messages of error.rs: none holds one.
HasNul(t) == \E i \in 1..Len(t) : t[i] = "NUL"
CStringNew(t) == IF HasNul(t) THEN Err("NulError") ELSE Ok(t)

\* the network names callers pass
AcceptedNames == {"main", "mainnet", "bitcoin", "test", "testnet", "signet", "regtest"}
NameArgs == {CNull, CInvalid} \cup {CText(n) : n \in AcceptedNames \cup {"bogus", "Mainnet"}}

\* the addresses, user parts and domain parts callers pass
AddrArgs == {CNull, CInvalid} \cup {CText(t) : t \in {<<"a", "@", "d">>, <<"BTC", "a", "@", "d">>, <<"a">>}}
UserArgs == {CNull, CInvalid, CText(<<"a">>)}
DomainArgs == {CNull, CInvalid, CText(<<"d">>)}

\* an out-parameter: a null pointer, or the caller's slot
OutArgs == {"null", "slot"}

\* PaymentInfo: what create_result_ptr reads of it
PaymentInfos ==
    { [uri |-> <<"bitcoin:addr">>, payment_type |-> "on-chain", is_reusable |-> TRUE],
      [uri |-> <<"bitcoin:?lightning=inv">>, payment_type |-> "lightning", is_reusable |-> FALSE] }

\* Display of Bip353Error
to_string_representation(e) ==
    CASE e = "DnsError" -> <<"DNS error: ...">>
      [] e = "InvalidAddress" -> <<"Invalid address: ...">>
      [] e = "InvalidRecord" -> <<"Invalid record: ...">>
      [] OTHER -> <<"Implementation error: ...">>

\* Display of PaymentType
PaymentTypeName(t) == <<t>>

StringAlloc(t) == [kind |-> "string", frees |-> 0, text |-> t]

\* Box::new(ResolverPtr(Arc::new(resolver))) of a resolver made by with_config.
\* Which configuration it got is recorded with the call that made it: the
\* backend's answers are free whatever the network is.
ResolverAlloc ==
    [kind |-> "resolver", frees |-> 0, cache |-> None, metrics |-> None]

Live(id) == heap[id].frees = 0
HeldOf(kind) == {id \in held : heap[id].kind = kind}

\* Box::from_raw / CString::from_raw dropped: each of ids is freed once more
Free(h, ids) ==
    [i \in DOMAIN h |-> IF i \in ids THEN [h[i] EXCEPT !.frees = @ + 1] ELSE h[i]]

\* the process is still running: no panic has left a foreign function
Alive == bcall.ret # RetPanic

Returns(fn, args, ret, via, result) ==
    bcall' = [fn |-> fn, args |-> args, ret |-> ret, via |-> via, result |-> result]

BFrame == UNCHANGED <<now, cfg, entries, metrics, call, last, mproc, pin, eng,
                      pinfo, lk, th, rt_made>>

\* a call that returned before doing anything
Untouched == UNCHANGED <<heap, held, rt, outs, engine_calls>>

\* Runtime::new() succeeds or fails, as the system allows
RuntimeNew == {Ok("ready"), Err("io::Error")}

\* what the backend can make resolve return
BoundaryAnswers == {Ok(i) : i \in PaymentInfos} \cup {Err(e) : e \in Errors}

\* get_runtime: the cell's runtime, made by Runtime::new() on first use;
\* expect panics when Runtime::new() failed
get_runtime(new) ==
    IF rt = "ready" THEN Ok("ready")
    ELSE IF new.tag = "Ok" THEN Ok("ready") ELSE Err("panic")

\* resolver.rs:120-131: with_config, which builds the resolver from any
\* configuration; the variant takes the default configuration only
with_config_default_only(config) ==
    IF config = "ResolverConfig::default"
    THEN Ok([config |-> config, cache |-> None, metrics |-> None])
    ELSE Err("ImplError")
with_config(config) == Ok([config |-> config, cache |-> None, metrics |-> None])

\* resolver.rs:115-117: Bip353Resolver::new
ResolverNew == with_config("ResolverConfig::default")

NetworkConfigDocumented(name) ==
    CASE name = "mainnet" -> Some("ResolverConfig::default")
      [] name = "testnet" -> Some("ResolverConfig::testnet")
      [] name = "signet" -> Some("ResolverConfig::signet")
      [] name = "regtest" -> Some("ResolverConfig::regtest")
      [] OTHER -> None

\* the match on the network name: the configuration's constructor, or none
NetworkConfig(name) ==
    CASE name \in {"main", "mainnet", "bitcoin"} -> Some("ResolverConfig::default")
      [] name \in {"test", "testnet"} -> Some("ResolverConfig::testnet")
      [] name = "signet" -> Some("ResolverConfig::signet")
      [] name = "regtest" -> Some("ResolverConfig::regtest")
      [] OTHER -> None

bip353_resolver_create ==
    /\ Alive
    /\ IF ResolverNew.tag = "Err"
       THEN Returns("bip353_resolver_create", <<>>, RetPtr(NULL), <<>>, None) /\ Untouched
       ELSE /\ heap' = Append(heap, ResolverAlloc)
            /\ Len(heap') <= MaxAllocs
            /\ held' = held \cup {Len(heap')}
            /\ Returns("bip353_resolver_create", <<>>, RetPtr(Len(heap')),
                       <<ResolverNew.val.config, "Bip353Resolver::with_config">>, None)
            /\ UNCHANGED <<rt, outs, engine_calls>>
    /\ BFrame

bip353_resolver_create_with_network(network_name) ==
    /\ Alive
    /\ LET fn == "bip353_resolver_create_with_network"
           args == <<network_name>>
           network_str == to_str(network_name)
       IN  IF network_name = CNull \/ network_str.tag = "Err"
           THEN Returns(fn, args, RetPtr(NULL), <<>>, None) /\ Untouched
           ELSE LET config == NetworkConfig(network_str.val)
                IN  IF config = None
                    THEN Returns(fn, args, RetPtr(NULL), <<>>, None) /\ Untouched
                    ELSE IF with_config(config.val).tag = "Err"
                    THEN Returns(fn, args, RetPtr(NULL), <<>>, None) /\ Untouched
                    ELSE /\ heap' = Append(heap, ResolverAlloc)
                         /\ Len(heap') <= MaxAllocs
                         /\ held' = held \cup {Len(heap')}
                         /\ Returns(fn, args, RetPtr(Len(heap')),
                                    <<config.val, "Bip353Resolver::with_config">>, None)
                         /\ UNCHANGED <<rt, outs, engine_calls>>
    /\ BFrame

\* the caller passes a handle it holds, or null
bip353_resolver_free(ptr) ==
    /\ Alive
    /\ IF ptr = NULL
       THEN Untouched
       ELSE /\ heap' = Free(heap, {ptr})
            /\ held' = held \ {ptr}
            /\ UNCHANGED <<rt, outs, engine_calls>>
    /\ Returns("bip353_resolver_free", <<ptr>>, RetVoid, <<>>, None)
    /\ BFrame

\* resolver.resolve_address(address_str): what it returns, the calls it makes
\* in order, and whether the backend was invoked
resolve_address(address_str, answer) ==
    LET parsed == parse_address(address_str)
    IN  IF parsed.tag = "Err"
        THEN [result |-> Err("InvalidAddress"), backend |-> FALSE,
              via |-> <<"resolve_address", "parse_address">>]
        ELSE [result |-> answer, backend |-> TRUE,
              via |-> <<"resolve_address", "parse_address", "resolve",
                        "PaymentInstructions::parse">>]

\* resolver.resolve(user_str, domain_str)
resolve(user_str, domain_str, answer) ==
    [result |-> answer, backend |-> TRUE,
     via |-> <<"resolve", "PaymentInstructions::parse">>]

ResultAlloc(success, uri, payment_type, is_reusable, error) ==
    [kind |-> "result", frees |-> 0, success |-> success, uri |-> uri,
     payment_type |-> payment_type, is_reusable |-> is_reusable, error |-> error]

NoAlloc == [ret |-> NULL, allocs |-> <<>>]

create_result_ptr_mixed(result, base) ==
    IF result.tag = "Ok"
    THEN [ret |-> base + 3,
          allocs |-> <<StringAlloc(result.val.uri),
                       StringAlloc(PaymentTypeName(result.val.payment_type)),
                       ResultAlloc(TRUE, base + 1, base + 2, result.val.is_reusable, NULL)>>]
    ELSE [ret |-> base + 3,
          allocs |-> <<StringAlloc(<<"">>), StringAlloc(<<"">>),
                       ResultAlloc(FALSE, base + 1, base + 2, FALSE, NULL)>>]

\* create_result_ptr(result), the heap holding base allocations: the pointer
\* returned and the allocations left behind, in the order they are made
create_result_ptr(result, base) ==
    IF result.tag = "Ok"
    THEN LET info == result.val
             uri_cstring == CStringNew(info.uri)
             type_cstring == CStringNew(PaymentTypeName(info.payment_type))
         IN  IF uri_cstring.tag = "Err" THEN NoAlloc
             ELSE IF type_cstring.tag = "Err" THEN NoAlloc
             ELSE [ret |-> base + 3,
                   allocs |-> <<StringAlloc(uri_cstring.val), StringAlloc(type_cstring.val),
                                ResultAlloc(TRUE, base + 1, base + 2, info.is_reusable, NULL)>>]
    ELSE LET error_cstring == CStringNew(to_string_representation(result.err))
         IN  IF error_cstring.tag = "Err" THEN NoAlloc
             ELSE [ret |-> base + 2,
                   allocs |-> <<StringAlloc(error_cstring.val),
                                ResultAlloc(FALSE, NULL, NULL, FALSE, base + 1)>>]

\* runtime.block_on(..) and create_result_ptr(result)
Finish(fn, args, run) ==
    LET made == create_result_ptr(run.result, Len(heap))
    IN  /\ heap' = heap \o made.allocs
        /\ Len(heap') <= MaxAllocs
        /\ held' = IF made.ret = NULL THEN held ELSE held \cup {made.ret}
        /\ rt' = "ready"
        /\ engine_calls' = engine_calls + (IF run.backend THEN 1 ELSE 0)
        /\ Returns(fn, args, RetPtr(made.ret), run.via, Some(run.result))
        /\ UNCHANGED outs

Rejects(fn, args, ret) == Returns(fn, args, ret, <<>>, None) /\ Untouched

\* expect("Failed to create Tokio runtime") panics inside the foreign function
Panics(fn, args) == Returns(fn, args, RetPanic, <<>>, None) /\ Untouched

bip353_resolve_address_eager(ptr, address) ==
    /\ Alive
    /\ LET fn == "bip353_resolve_address"
           args == <<ptr, address>>
           address_str == to_str(address)
       IN  IF ptr = NULL \/ address = CNull
           THEN Rejects(fn, args, RetPtr(NULL))
           ELSE \E new \in RuntimeNew :
                  IF get_runtime(new).tag = "Err"
                  THEN Panics(fn, args)
                  ELSE IF address_str.tag = "Err"
                  THEN /\ rt' = "ready"
                       /\ Returns(fn, args, RetPtr(NULL), <<>>, None)
                       /\ UNCHANGED <<heap, held, outs, engine_calls>>
                  ELSE \E answer \in BoundaryAnswers :
                         Finish(fn, args, resolve_address(address_str.val, answer))
    /\ BFrame

\* ptr is a handle the caller holds, or null
bip353_resolve_address(ptr, address) ==
    /\ Alive
    /\ LET fn == "bip353_resolve_address"
           args == <<ptr, address>>
           address_str == to_str(address)
       IN  IF ptr = NULL \/ address = CNull
           THEN Rejects(fn, args, RetPtr(NULL))
           ELSE IF address_str.tag = "Err"
           THEN Rejects(fn, args, RetPtr(NULL))
           ELSE \E new \in RuntimeNew :
                  IF get_runtime(new).tag = "Err"
                  THEN Panics(fn, args)
                  ELSE \E answer \in BoundaryAnswers :
                         Finish(fn, args, resolve_address(address_str.val, answer))
    /\ BFrame

bip353_resolve(ptr, user, domain) ==
    /\ Alive
    /\ LET fn == "bip353_resolve"
           args == <<ptr, user, domain>>
           user_str == to_str(user)
           domain_str == to_str(domain)
       IN  IF ptr = NULL \/ user = CNull \/ domain = CNull
           THEN Rejects(fn, args, RetPtr(NULL))
           ELSE IF user_str.tag = "Err"
           THEN Rejects(fn, args, RetPtr(NULL))
           ELSE IF domain_str.tag = "Err"
           THEN Rejects(fn, args, RetPtr(NULL))
           ELSE \E new \in RuntimeNew :
                  IF get_runtime(new).tag = "Err"
                  THEN Panics(fn, args)
                  ELSE \E answer \in BoundaryAnswers :
                         Finish(fn, args, resolve(user_str.val, domain_str.val, answer))
    /\ BFrame

\* the strings a result record points to
StringsOf(r) == {r.uri, r.payment_type, r.error} \ {NULL}

bip353_result_free_shallow(ptr) ==
    /\ Alive
    /\ IF ptr = NULL
       THEN Untouched
       ELSE /\ heap' = Free(heap, {ptr})
            /\ held' = held \ {ptr}
            /\ UNCHANGED <<rt, outs, engine_calls>>
    /\ Returns("bip353_result_free", <<ptr>>, RetVoid, <<>>, None)
    /\ BFrame

\* the caller passes a result it holds, or null
bip353_result_free(ptr) ==
    /\ Alive
    /\ IF ptr = NULL
       THEN Untouched
       ELSE /\ heap' = Free(heap, {ptr} \cup StringsOf(heap[ptr]))
            /\ held' = held \ {ptr}
            /\ UNCHANGED <<rt, outs, engine_calls>>
    /\ Returns("bip353_result_free", <<ptr>>, RetVoid, <<>>, None)
    /\ BFrame

\* a bip353_parse_address that copies the text into the user slot before it
\* parses it, and returns false on an unparsable address without taking it back
bip353_parse_address_early_write(address, user_out, domain_out) ==
    /\ Alive
    /\ LET fn == "bip353_parse_address"
           args == <<address, user_out, domain_out>>
           address_str == to_str(address)
       IN  IF address = CNull \/ user_out = "null" \/ domain_out = "null"
           THEN Rejects(fn, args, RetBool(FALSE))
           ELSE IF address_str.tag = "Err"
           THEN Rejects(fn, args, RetBool(FALSE))
           ELSE LET parsed == parse_address(address_str.val)
                IN  IF parsed.tag = "Err"
                    THEN /\ heap' = Append(heap, StringAlloc(address_str.val))
                         /\ Len(heap') <= MaxAllocs
                         /\ outs' = [outs EXCEPT !.user_out = Len(heap) + 1]
                         /\ Returns(fn, args, RetBool(FALSE), <<"parse_address">>, None)
                         /\ UNCHANGED <<held, rt, engine_calls>>
                    ELSE /\ heap' = heap \o <<StringAlloc(parsed.val.user),
                                              StringAlloc(parsed.val.domain)>>
                         /\ Len(heap') <= MaxAllocs
                         /\ outs' = [user_out |-> Len(heap) + 1,
                                     domain_out |-> Len(heap) + 2]
                         /\ held' = held \cup {Len(heap) + 1, Len(heap) + 2}
                         /\ Returns(fn, args, RetBool(TRUE), <<"parse_address">>, None)
                         /\ UNCHANGED <<rt, engine_calls>>
    /\ BFrame

bip353_parse_address(address, user_out, domain_out) ==
    /\ Alive
    /\ LET fn == "bip353_parse_address"
           args == <<address, user_out, domain_out>>
           address_str == to_str(address)
       IN  IF address = CNull \/ user_out = "null" \/ domain_out = "null"
           THEN Rejects(fn, args, RetBool(FALSE))
           ELSE IF address_str.tag = "Err"
           THEN Rejects(fn, args, RetBool(FALSE))
           ELSE LET parsed == parse_address(address_str.val)
                IN  IF parsed.tag = "Err"
                    THEN Rejects(fn, args, RetBool(FALSE))
                    ELSE LET user_cstring == CStringNew(parsed.val.user)
                             domain_cstring == CStringNew(parsed.val.domain)
                         IN  IF user_cstring.tag = "Err"
                             THEN Rejects(fn, args, RetBool(FALSE))
                             ELSE IF domain_cstring.tag = "Err"
                             THEN /\ heap' = Free(Append(heap, StringAlloc(user_cstring.val)),
                                                  {Len(heap) + 1})
                                  /\ Len(heap') <= MaxAllocs
                                  /\ outs' = [outs EXCEPT !.user_out = NULL]
                                  /\ Returns(fn, args, RetBool(FALSE), <<"parse_address">>, None)
                                  /\ UNCHANGED <<held, rt, engine_calls>>
                             ELSE /\ heap' = heap \o <<StringAlloc(user_cstring.val),
                                                       StringAlloc(domain_cstring.val)>>
                                  /\ Len(heap') <= MaxAllocs
                                  /\ outs' = [user_out |-> Len(heap) + 1,
                                              domain_out |-> Len(heap) + 2]
                                  /\ held' = held \cup {Len(heap) + 1, Len(heap) + 2}
                                  /\ Returns(fn, args, RetBool(TRUE), <<"parse_address">>, None)
                                  /\ UNCHANGED <<rt, engine_calls>>
    /\ BFrame

\* the caller passes a string it holds, or null
bip353_string_free(ptr) ==
    /\ Alive
    /\ IF ptr = NULL
       THEN Untouched
       ELSE /\ heap' = Free(heap, {ptr})
            /\ held' = held \ {ptr}
            /\ UNCHANGED <<rt, outs, engine_calls>>
    /\ Returns("bip353_string_free", <<ptr>>, RetVoid, <<>>, None)
    /\ BFrame

InitBoundary ==
    /\ now = 0
    /\ cfg = [enable_cache |-> FALSE, cache_ttl |-> 0, enable_metrics |-> FALSE]
    /\ entries = <<>>
    /\ metrics = NewMetrics
    /\ engine_calls = 0
    /\ call = [c \in Callers |-> IdleCall]
    /\ last = [op |-> "new", who |-> "boundary"]
    /\ mproc = [p \in Clients |-> IdleProc]
    /\ pin = IdlePin
    /\ eng = IdleEng
    /\ heap = <<>>
    /\ held = {}
    /\ rt = "unset"
    /\ outs = IdleOuts
    /\ bcall = IdleBcall
    /\ pinfo = IdleInfo
    /\ lk = IdleLock
    /\ th = <<>>
    /\ rt_made = 0

NextBoundary ==
    \/ bip353_resolver_create
    \/ \E network_name \in NameArgs : bip353_resolver_create_with_network(network_name)
    \/ \E ptr \in {NULL} \cup HeldOf("resolver") : bip353_resolver_free(ptr)
    \/ \E ptr \in {NULL} \cup HeldOf("resolver"), address \in AddrArgs :
            bip353_resolve_address(ptr, address)
    \/ \E ptr \in {NULL} \cup HeldOf("resolver"), user \in UserArgs, domain \in DomainArgs :
            bip353_resolve(ptr, user, domain)
    \/ \E ptr \in {NULL} \cup HeldOf("result") : bip353_result_free(ptr)
    \/ \E address \in AddrArgs, user_out \in OutArgs, domain_out \in OutArgs :
            bip353_parse_address(address, user_out, domain_out)
    \/ \E ptr \in {NULL} \cup HeldOf("string") : bip353_string_free(ptr)

SpecBoundary == InitBoundary /\ [][NextBoundary]_vars

----------------------------------------------------------------------------
(* C11 *)

ResolveFns == {"bip353_resolve_address", "bip353_resolve"}

\* the caller still has to release id: it holds it, or holds the result whose
\* string it is
Owed(id) ==
    \/ id \in held
    \/ \E r \in HeldOf("result") : id \in StringsOf(heap[r])

C11_OwnState ==
    \A id \in DOMAIN heap :
        /\ heap[id].frees <= 1
        /\ Live(id) <=> Owed(id)

C11_ResolveSteps ==
    bcall'.fn \in ResolveFns =>
        /\ held \subseteq held'
        /\ \A id \in DOMAIN heap : id \in DOMAIN heap' /\ heap'[id] = heap[id]

\* C11: when the caller releases each handle, result and string it was given
\* exactly once, no allocation of the boundary is freed twice, and an
\* allocation is live exactly while the caller still has to release it or the
\* result it belongs to, so none is live once everything was released; a
\* resolve call frees nothing and takes nothing from the caller
C11_Ownership == []C11_OwnState /\ [][C11_ResolveSteps]_vars

\* a handle and a successful result with its two strings were made, and the
\* caller has released both
C11_Witness ==
    /\ held = {}
    /\ \E h, r \in DOMAIN heap :
          /\ heap[h].kind = "resolver"
          /\ heap[r].kind = "result" /\ heap[r].success
          /\ \A id \in {h, r, heap[r].uri, heap[r].payment_type} : heap[id].frees = 1

----------------------------------------------------------------------------
(* C12 *)

Unusable(c) == c.tag \in {"null", "invalid"}

\* the call was given a null handle, a null or undecodable string, or a null
\* out-parameter
BadCall(c) ==
    \/ /\ c.fn = "bip353_resolver_create_with_network"
       /\ Unusable(c.args[1])
    \/ /\ c.fn = "bip353_resolve_address"
       /\ (c.args[1] = NULL \/ Unusable(c.args[2]))
    \/ /\ c.fn = "bip353_resolve"
       /\ (c.args[1] = NULL \/ Unusable(c.args[2]) \/ Unusable(c.args[3]))
    \/ /\ c.fn = "bip353_parse_address"
       /\ (Unusable(c.args[1]) \/ c.args[2] = "null" \/ c.args[3] = "null")

C12_RejectSteps ==
    BadCall(bcall') =>
        /\ bcall'.ret = IF bcall'.fn = "bip353_parse_address" THEN RetBool(FALSE)
                        ELSE RetPtr(NULL)
        /\ engine_calls' = engine_calls
        /\ rt' = rt
        /\ heap' = heap
        /\ held' = held
        /\ outs' = outs

\* C12: a boundary call given a null handle, a null string or a string that
\* is not valid text returns null (false for bip353_parse_address) and
\* invokes no backend, creates no runtime, allocates nothing and writes no
\* out-parameter
C12_Rejected == [][C12_RejectSteps]_vars

\* a resolve with a handle the caller holds and an undecodable address came
\* back null, the runtime still not created
C12_Witness ==
    /\ bcall.fn = "bip353_resolve_address"
    /\ bcall.args[1] # NULL /\ bcall.args[2] = CInvalid
    /\ bcall.ret = RetPtr(NULL)
    /\ rt = "unset"

----------------------------------------------------------------------------
(* C13 *)

MadeHandle(names) ==
    bcall.fn = "bip353_resolver_create_with_network" =>
        (bcall.ret # RetPtr(NULL)
            <=> (bcall.args[1].tag = "text" /\ bcall.args[1].val \in names))

\* C13 as stated: bip353_resolver_create_with_network returns a handle exactly
\* for "mainnet", "testnet", "signet" and "regtest"
C13_NetworkNamesAsStated ==
    MadeHandle({"mainnet", "testnet", "signet", "regtest"})

\* C13: bip353_resolver_create_with_network returns a handle exactly for
\* "main", "mainnet", "bitcoin", "test", "testnet", "signet" and "regtest",
\* and null for every other name
C13_NetworkNames ==
    MadeHandle({"main", "mainnet", "bitcoin", "test", "testnet", "signet", "regtest"})

\* "main" got a handle
C13_Witness ==
    /\ bcall.fn = "bip353_resolver_create_with_network"
    /\ bcall.args[1] = CText("main")
    /\ bcall.ret # RetPtr(NULL)

----------------------------------------------------------------------------
(* C14 *)

\* C14: every result record either has success true, uri and payment_type
\* set and error null, or has success false, error set, uri and payment_type
\* null and is_reusable false
C14_Exclusive ==
    \A id \in DOMAIN heap :
        heap[id].kind = "result" =>
            LET r == heap[id]
            IN  \/ r.success /\ r.uri # NULL /\ r.payment_type # NULL /\ r.error = NULL
                \/ /\ ~r.success /\ r.error # NULL
                   /\ r.uri = NULL /\ r.payment_type = NULL /\ ~r.is_reusable

\* a resolve that failed in the backend gave a result record
C14_Witness ==
    /\ bcall.fn \in ResolveFns
    /\ bcall.result = Some(Err("DnsError"))
    /\ heap[bcall.ret.ptr].kind = "result"

----------------------------------------------------------------------------
(* C15 *)

\* C15: no panic leaves a foreign function, and a resolve given a handle and
\* decodable strings that fails gives a result record with success false and
\* an error string
C15_NoNativeError ==
    /\ bcall.ret # RetPanic
    /\ (bcall.fn \in ResolveFns /\ ~BadCall(bcall) /\ bcall.ret # RetPanic) =>
          /\ bcall.ret # RetPtr(NULL)
          /\ bcall.result.val.tag = "Err" =>
                ~heap[bcall.ret.ptr].success /\ heap[bcall.ret.ptr].error # NULL

----------------------------------------------------------------------------
(* C16 *)

\* C16: a resolve through the boundary that invokes the backend has consulted
\* the cache before, and records the call in the metrics
C16_ThroughSafetyLayer ==
    (bcall.fn \in ResolveFns /\ bcall.result # None) =>
        /\ \A j \in DOMAIN bcall.via :
              bcall.via[j] = "PaymentInstructions::parse" =>
                  \E i \in 1..(j - 1) : bcall.via[i] = "cache.get"
        /\ \E k \in DOMAIN bcall.via :
              bcall.via[k] \in {"metrics.record_resolution_success",
                                "metrics.record_resolution_failure"}

----------------------------------------------------------------------------
(* resolver.rs, types.rs: from the backend's instructions to the PaymentInfo.
   A URI is a sequence of text pieces; "?", "&" and "=" are pieces of their
   own, and no address, invoice, offer or amount holds one of them. *)

\* the most methods an instruction carries
MaxMethods == 2

\* the longest URI text handed to from_instructions directly
MaxUri == 6

\* PaymentMethod, and PossiblyResolvedPaymentMethod::LNURLPay
FixedMethods ==
    { [kind |-> "OnChain", data |-> "addr1"], [kind |-> "OnChain", data |-> "addr2"],
      [kind |-> "LightningBolt11", data |-> "lnbc1"],
      [kind |-> "LightningBolt12", data |-> "lno1"] }
ConfigurableMethods == FixedMethods \cup { [kind |-> "LNURLPay", data |-> "lnurl"] }

MethodLists(S) == UNION {[1..n -> S] : n \in 0..MaxMethods}

\* PaymentInstructions as the backend returns them
Instructions ==
    [variant : {"FixedAmount"}, methods : MethodLists(FixedMethods),
     max_amount : {None, Some("amt")}]
    \cup
    [variant : {"ConfigurableAmount"}, methods : MethodLists(ConfigurableMethods),
     max_amount : {None}]

UriAlphabet == {"?", "&", "=", "k"}
UriTexts == UNION {[1..n -> UriAlphabet] : n \in 0..MaxUri}

\* amount.btc_decimal_rounding_up_to_sats(), as text
btc_decimal_rounding_up_to_sats(amount) == <<amount>>

MethodUriSwapped(method) ==
    CASE method.kind = "OnChain" -> <<"bitcoin:", method.data>>
      [] method.kind = "LightningBolt11" -> <<"bitcoin:", "?", "lno", "=", method.data>>
      [] method.kind = "LightningBolt12" -> <<"bitcoin:", "?", "lightning", "=", method.data>>

\* the match on a PaymentMethod: the URI it gives
MethodUri(method) ==
    CASE method.kind = "OnChain" -> <<"bitcoin:", method.data>>
      [] method.kind = "LightningBolt11" -> <<"bitcoin:", "?", "lightning", "=", method.data>>
      [] method.kind = "LightningBolt12" -> <<"bitcoin:", "?", "lno", "=", method.data>>

BuildUriUnchecked(instructions) ==
    IF instructions.methods = <<>> THEN Ok(<<"bitcoin:">>)
    ELSE IF Head(instructions.methods).kind = "LNURLPay" THEN Ok(<<"bitcoin:">>)
    ELSE Ok(MethodUri(Head(instructions.methods)))

\* resolve, "Extract the URI based on the payment instructions"
BuildUri(instructions) ==
    IF instructions.variant = "FixedAmount"
    THEN IF instructions.methods # <<>>
         THEN LET method == Head(instructions.methods)
              IN  IF method.kind = "OnChain" /\ instructions.max_amount # None
                  THEN Ok(MethodUri(method) \o <<"?", "amount", "=">>
                          \o btc_decimal_rounding_up_to_sats(instructions.max_amount.val))
                  ELSE Ok(MethodUri(method))
         ELSE Err("InvalidRecord")
    ELSE LET has_method == instructions.methods # <<>>
             base_uri == IF has_method
                         THEN LET method == Head(instructions.methods)
                              IN  IF method.kind = "LNURLPay" THEN <<"bitcoin:">>
                                  ELSE MethodUri(method)
                         ELSE <<"bitcoin:">>
         IN  IF ~has_method THEN Err("InvalidRecord") ELSE Ok(base_uri)

VisitResetting(acc, method) ==
    CASE method.kind = "OnChain" -> [payment_type |-> "OnChain", is_reusable |-> TRUE]
      [] method.kind = "LightningBolt11" -> [payment_type |-> "Lightning", is_reusable |-> FALSE]
      [] method.kind = "LightningBolt12" -> [payment_type |-> "LightningOffer", is_reusable |-> TRUE]
      [] method.kind = "LNURLPay" -> [payment_type |-> "Lightning", is_reusable |-> FALSE]

\* the body of the loop over the methods
Visit(acc, method) ==
    CASE method.kind = "OnChain" -> [acc EXCEPT !.payment_type = "OnChain"]
      [] method.kind = "LightningBolt11" -> [payment_type |-> "Lightning", is_reusable |-> FALSE]
      [] method.kind = "LightningBolt12" -> [acc EXCEPT !.payment_type = "LightningOffer"]
      [] method.kind = "LNURLPay" -> [payment_type |-> "Lightning", is_reusable |-> FALSE]

ClassifyFirst(acc, methods) ==
    IF methods = <<>> THEN acc ELSE Visit(acc, Head(methods))

\* for method in methods(): every method is visited, in order
RECURSIVE Classify(_, _)
Classify(acc, methods) ==
    IF methods = <<>> THEN acc
    ELSE Classify(Visit(acc, Head(methods)), Tail(methods))

\* str::find: the first position of ch in s, 0 when there is none
RECURSIVE Find(_, _)
Find(s, ch) ==
    IF s = <<>> THEN 0
    ELSE IF Head(s) = ch THEN 1
    ELSE LET rest == Find(Tail(s), ch) IN IF rest = 0 THEN 0 ELSE rest + 1

\* str::split(ch): the pieces between the separators, empty pieces included
RECURSIVE SplitAt(_, _, _)
SplitAt(s, ch, acc) ==
    IF s = <<>> THEN <<acc>>
    ELSE IF Head(s) = ch THEN <<acc>> \o SplitAt(Tail(s), ch, <<>>)
    ELSE SplitAt(Tail(s), ch, Append(acc, Head(s)))

HashMapInsertKeepFirst(map, key, value) ==
    [k \in DOMAIN map \cup {key} |-> IF k \in DOMAIN map THEN map[k] ELSE value]

\* HashMap::insert
HashMapInsert(map, key, value) ==
    [k \in DOMAIN map \cup {key} |-> IF k = key THEN value ELSE map[k]]

\* for pair in query.split('&')
RECURSIVE InsertPairs(_, _)
InsertPairs(map, pairs) ==
    IF pairs = <<>> THEN map
    ELSE LET pair == Head(pairs)
             eq_pos == Find(pair, "=")
         IN  IF eq_pos # 0
             THEN InsertPairs(HashMapInsert(map, SubSeq(pair, 1, eq_pos - 1),
                                     SubSeq(pair, eq_pos + 1, Len(pair))),
                              Tail(pairs))
             ELSE InsertPairs(map, Tail(pairs))

\* "Parse parameters from URI"
Parameters(uri) ==
    LET query_start == Find(uri, "?")
    IN  IF query_start # 0
        THEN InsertPairs(<<>>, SplitAt(SubSeq(uri, query_start + 1, Len(uri)), "&", <<>>))
        ELSE <<>>

\* the kind of method a URI names: "bitcoin:<address>", "bitcoin:?lightning=..."
\* and "bitcoin:?lno=..."; the bare "bitcoin:" names none
UriMethodType(uri) ==
    IF Len(uri) < 2 THEN "Unknown"
    ELSE IF uri[2] # "?" THEN "OnChain"
    ELSE IF uri[3] = "lightning" THEN "Lightning"
    ELSE IF uri[3] = "lno" THEN "LightningOffer"
    ELSE "Unknown"

\* a from_instructions that classifies by the URI it was handed
from_instructions_by_uri(instructions, uri) ==
    LET class == Classify([payment_type |-> "Unknown", is_reusable |-> TRUE],
                          instructions.methods)
    IN  [uri |-> uri, payment_type |-> UriMethodType(uri),
         is_reusable |-> class.is_reusable, parameters |-> Parameters(uri),
         original_instructions |-> instructions]

\* PaymentInfo::from_instructions
from_instructions(instructions, uri) ==
    LET class == Classify([payment_type |-> "Unknown", is_reusable |-> TRUE],
                          instructions.methods)
    IN  [uri |-> uri, payment_type |-> class.payment_type,
         is_reusable |-> class.is_reusable, parameters |-> Parameters(uri),
         original_instructions |-> instructions]

IFrame == UNCHANGED <<now, cfg, entries, metrics, engine_calls, call, last, mproc,
                      pin, eng, heap, held, rt, outs, bcall, lk, th, rt_made>>

\* resolve, once the backend has returned the instructions
ResolveTail ==
    /\ pinfo.pc = "given"
    /\ LET uri == BuildUri(pinfo.instructions)
       IN  pinfo' = [pinfo EXCEPT
                       !.pc = "resolved",
                       !.result = IF uri.tag = "Err" THEN Some(uri)
                                  ELSE Some(Ok(from_instructions(pinfo.instructions, uri.val)))]
    /\ IFrame

\* PaymentInfo::from_instructions called with a URI text of the caller's
FromInstructions ==
    /\ pinfo.pc = "given"
    /\ pinfo' = [pinfo EXCEPT
                   !.pc = "made",
                   !.result = Some(Ok(from_instructions(pinfo.instructions, pinfo.text)))]
    /\ IFrame

\* the instruction that goes with the URI texts
PlainInstruction ==
    [variant |-> "FixedAmount", methods |-> <<[kind |-> "OnChain", data |-> "addr1"]>>,
     max_amount |-> None]

InitInfo ==
    /\ now = 0
    /\ cfg = [enable_cache |-> FALSE, cache_ttl |-> 0, enable_metrics |-> FALSE]
    /\ entries = <<>>
    /\ metrics = NewMetrics
    /\ engine_calls = 0
    /\ call = [c \in Callers |-> IdleCall]
    /\ last = [op |-> "new", who |-> "types"]
    /\ mproc = [p \in Clients |-> IdleProc]
    /\ pin = IdlePin
    /\ eng = IdleEng
    /\ heap = <<>>
    /\ held = {}
    /\ rt = "unset"
    /\ outs = IdleOuts
    /\ bcall = IdleBcall
    /\ pinfo \in [pc : {"given"}, instructions : Instructions, text : {<<>>}, result : {None}]
                 \cup [pc : {"given"}, instructions : {PlainInstruction}, text : UriTexts,
                       result : {None}]
    /\ lk = IdleLock
    /\ th = <<>>
    /\ rt_made = 0

NextInfo == ResolveTail \/ FromInstructions

SpecInfo == InitInfo /\ [][NextInfo]_vars

----------------------------------------------------------------------------
(* C21 *)

Resolved == pinfo.pc = "resolved" /\ pinfo.result.val.tag = "Ok"
Built == pinfo.pc # "given" /\ pinfo.result.val.tag = "Ok"
Given == pinfo.instructions
Info == pinfo.result.val.val

\* the URI the first method stands for
UriFor(instructions) ==
    LET m == instructions.methods[1]
    IN  CASE m.kind = "OnChain" ->
               IF instructions.variant = "FixedAmount" /\ instructions.max_amount # None
               THEN <<"bitcoin:", m.data, "?", "amount", "=", instructions.max_amount.val>>
               ELSE <<"bitcoin:", m.data>>
          [] m.kind = "LightningBolt11" -> <<"bitcoin:", "?", "lightning", "=", m.data>>
          [] m.kind = "LightningBolt12" -> <<"bitcoin:", "?", "lno", "=", m.data>>
          [] m.kind = "LNURLPay" -> <<"bitcoin:">>

\* C21: the URI resolve returns is "bitcoin:<address>" for an on-chain method,
\* with "?amount=<amount>" appended only for a FixedAmount with a maximum,
\* "bitcoin:?lightning=<invoice>" for a BOLT11 invoice, "bitcoin:?lno=<offer>"
\* for a BOLT12 offer and bare "bitcoin:" for an unresolved placeholder, the
\* method being the first one; a FixedAmount with one on-chain method and no
\* maximum gives "bitcoin:<address>" and no parameters
C21_UriConstruction ==
    (pinfo.pc = "resolved" /\ Given.methods # <<>>) =>
        /\ pinfo.result.val.tag = "Ok"
        /\ Info.uri = UriFor(Given)
        /\ ( /\ Given.variant = "FixedAmount" /\ Given.max_amount = None
             /\ Len(Given.methods) = 1 /\ Given.methods[1].kind = "OnChain" )
           => /\ Info.uri = <<"bitcoin:", Given.methods[1].data>>
              /\ DOMAIN Info.parameters = {}

\* a FixedAmount with a maximum whose first method is on-chain, a BOLT11
\* invoice after it: the URI carries the address and the amount
C21_Witness ==
    /\ Resolved
    /\ Given.variant = "FixedAmount" /\ Given.max_amount = Some("amt")
    /\ Given.methods = <<[kind |-> "OnChain", data |-> "addr2"],
                         [kind |-> "LightningBolt11", data |-> "lnbc1"]>>
    /\ Info.uri = <<"bitcoin:", "addr2", "?", "amount", "=", "amt">>

----------------------------------------------------------------------------
(* C22 *)

KindsOf(instructions) == {instructions.methods[i].kind : i \in DOMAIN instructions.methods}

\* C22: is_reusable is false when a BOLT11 invoice is among the methods, at
\* any position, and true when every method is an on-chain address or a
\* BOLT12 offer; one BOLT11 invoice alone gives Lightning and not reusable
C22_Reusable ==
    Built =>
        /\ "LightningBolt11" \in KindsOf(Given) => ~Info.is_reusable
        /\ KindsOf(Given) \subseteq {"OnChain", "LightningBolt12"} => Info.is_reusable
        /\ (Len(Given.methods) = 1 /\ Given.methods[1].kind = "LightningBolt11")
           => Info.payment_type = "Lightning" /\ ~Info.is_reusable

\* an invoice followed by an on-chain address: not reusable, classed OnChain
C22_Witness ==
    /\ Resolved
    /\ Given.methods = <<[kind |-> "LightningBolt11", data |-> "lnbc1"],
                         [kind |-> "OnChain", data |-> "addr1"]>>
    /\ ~Info.is_reusable
    /\ Info.payment_type = "OnChain"

----------------------------------------------------------------------------
(* C23 *)

TypeOf(kind) ==
    CASE kind = "OnChain" -> "OnChain"
      [] kind = "LightningBolt11" -> "Lightning"
      [] kind = "LNURLPay" -> "Lightning"
      [] kind = "LightningBolt12" -> "LightningOffer"

\* C23: payment_type is the type of the last method, whatever the earlier
\* methods and the URI are, and Unknown when there is no method
C23_LastMethod ==
    Built =>
        Info.payment_type =
            IF Given.methods = <<>> THEN "Unknown"
            ELSE TypeOf(Given.methods[Len(Given.methods)].kind)

\* an on-chain address first and an offer last: the URI is the address's,
\* the type the offer's
C23_Witness ==
    /\ Resolved
    /\ Given.methods = <<[kind |-> "OnChain", data |-> "addr1"],
                         [kind |-> "LightningBolt12", data |-> "lno1"]>>
    /\ Info.uri = <<"bitcoin:", "addr1">>
    /\ Info.payment_type = "LightningOffer"

----------------------------------------------------------------------------
(* C24 *)

\* C24: resolve fails with InvalidRecord, and gives no PaymentInfo, when the
\* instruction carries no method
C24_NoMethods ==
    (pinfo.pc = "resolved" /\ Given.methods = <<>>) =>
        pinfo.result = Some(Err("InvalidRecord"))

\* a ConfigurableAmount without methods was refused
C24_Witness ==
    /\ pinfo.pc = "resolved"
    /\ Given.variant = "ConfigurableAmount" /\ Given.methods = <<>>
    /\ pinfo.result = Some(Err("InvalidRecord"))

----------------------------------------------------------------------------
(* C25 *)

\* the position of the first "?" of u
QueryStart(u) == CHOOSE i \in 1..Len(u) : u[i] = "?" /\ \A j \in 1..(i - 1) : u[j] # "?"

\* the pairs of u: the stretches a..b after the first "?" that lie between
\* two "&", or between an end of the query and an "&", and hold no "&"
PairsOf(u) ==
    { p \in (1..(Len(u) + 1)) \X (0..Len(u)) :
        /\ p[1] > QueryStart(u) /\ p[1] <= p[2] + 1
        /\ (p[1] = QueryStart(u) + 1 \/ u[p[1] - 1] = "&")
        /\ (p[2] = Len(u) \/ u[p[2] + 1] = "&")
        /\ \A i \in p[1]..p[2] : u[i] # "&" }

HasEq(u, p) == \E i \in p[1]..p[2] : u[i] = "="
EqPos(u, p) == CHOOSE i \in p[1]..p[2] : u[i] = "=" /\ \A j \in p[1]..(i - 1) : u[j] # "="
KeyOf(u, p) == SubSeq(u, p[1], EqPos(u, p) - 1)
ValueOf(u, p) == SubSeq(u, EqPos(u, p) + 1, p[2])

\* C25: parameters is what splitting the URI at its first "?", the rest on
\* "&" and each pair at its first "=" gives: a pair without "=" gives
\* nothing, the last pair of a key gives the key's value, and a URI without
\* "?" gives no parameter
C25_Parameters ==
    Built =>
        LET u == Info.uri
            params == Info.parameters
        IN  IF \A i \in 1..Len(u) : u[i] # "?"
            THEN DOMAIN params = {}
            ELSE LET pairs == {p \in PairsOf(u) : HasEq(u, p)}
                 IN  /\ DOMAIN params = {KeyOf(u, p) : p \in pairs}
                     /\ \A p \in pairs :
                           (\A q \in pairs : KeyOf(u, q) = KeyOf(u, p) => q[1] <= p[1])
                           => params[KeyOf(u, p)] = ValueOf(u, p)

\* "?=&=k": the empty key twice, the second value kept
C25_Witness ==
    /\ pinfo.pc = "made"
    /\ Info.uri = <<"?", "=", "&", "=", "k">>
    /\ DOMAIN Info.parameters = {<<>>}
    /\ Info.parameters[<<>>] = <<"k">>

-----------------------------------------------------------------------------
(* the two optional features of a resolver *)

\* resolver.rs:148-175: the cache and the metrics a resolver is built with
with_enhanced_config(enable_cache, cache_ttl, enable_metrics) ==
    Ok([cache |-> IF enable_cache THEN Some([default_ttl |-> cache_ttl]) ELSE None,
        metrics |-> IF enable_metrics THEN Some(NewMetrics) ELSE None])

\* the resolver the calls of Spec are made on
Resolver == with_enhanced_config(cfg.enable_cache, cfg.cache_ttl, cfg.enable_metrics).val

\* resolver.rs:344-347: self.metrics.as_ref().map(|m| m.get_resolution_stats())
get_metrics ==
    IF Resolver.metrics.tag = "Some"
    THEN Some(ResolutionStats(metrics["resolutions_total"],
                              metrics["resolutions_success"],
                              metrics["resolutions_failed"]))
    ELSE None

\* the backend has answered call c
Asked(c) == call[c].resolved.tag # "None"

\* call c returns what the backend answered to it
ReturnsAnswer(c) ==
    /\ Asked(c)
    /\ call[c].result.tag = call[c].resolved.tag
    /\ call[c].result.tag = "Ok" =>
            call[c].result.val.payment_info = call[c].resolved.val
    /\ call[c].result.tag = "Err" => call[c].result.err = call[c].resolved.err

\* call c returns the value a get found stored, without asking the backend
ReturnsCached(c) ==
    /\ cfg.enable_cache
    /\ ~Asked(c)
    /\ Hit(c)
    /\ call[c].result.tag = "Ok"
    /\ call[c].result.val.payment_info = call[c].cached.val

C26_Features ==
    /\ Resolver.cache.tag = "Some" <=> cfg.enable_cache
    /\ get_metrics.tag = "Some" <=> cfg.enable_metrics
    /\ ~cfg.enable_cache =>
            /\ entries = <<>>
            /\ metrics["cache_hits"] = 0 /\ metrics["cache_misses"] = 0
            /\ \A c \in Callers :
                    call[c].pc \notin {"idle", "resolve"} =>
                        Asked(c) /\ call[c].log[1] = "engine"
    /\ ~cfg.enable_metrics => metrics = NewMetrics

C26_FeatureSteps ==
    \A c \in Callers :
        /\ (call[c].pc = "idle" /\ call'[c].pc # "idle") =>
                call'[c].pc = IF cfg.enable_cache THEN "get" ELSE "resolve"
        /\ (call[c].pc = "get" /\ call'[c].pc # "get") =>
                (call'[c].pc = "hit"
                    <=> CacheGet(entries, call[c].hrn, now).tag = "Some")

\* C26 as stated: no call returns anything but what the backend answers to it,
\* which is what every call returns when the cache is disabled.
C26_SameResultAsStated ==
    \A c \in Callers : call[c].pc = "done" => ReturnsAnswer(c)

C26_SameResult ==
    \A c \in Callers :
        call[c].pc = "done" =>
            /\ ReturnsAnswer(c) \/ ReturnsCached(c)
            /\ ~cfg.enable_cache => ReturnsAnswer(c)

\* C26 (amended): the resolver has a cache iff enable_cache and metrics iff
\* enable_metrics (get_metrics is Some iff enabled); with the cache disabled the
\* map stays empty, every call asks the backend first and no hit or miss is
\* counted; with metrics disabled no counter moves and a get that finds an
\* unexpired entry is still served from the cache; a call returns the backend's
\* answer to it or, with the cache enabled, the value a get found stored.
C26_Independent == []C26_Features /\ []C26_SameResult /\ [][C26_FeatureSteps]_vars

C26_Witness ==
    /\ ~cfg.enable_metrics /\ cfg.enable_cache
    /\ get_metrics = None
    /\ metrics = NewMetrics
    /\ \E c, d \in Callers :
        /\ call[c].pc = "done" /\ ReturnsCached(c)
        /\ call[d].pc = "done" /\ ReturnsAnswer(d)
        /\ call[c].hrn = call[d].hrn

-----------------------------------------------------------------------------
(* convergence of the resolution counters *)

Outcomes == metrics["resolutions_success"] + metrics["resolutions_failed"]

\* C27: in every reachable state resolutions_total >= resolutions_success +
\* resolutions_failed, and the two sides are equal whenever no
\* record_resolution_success / record_resolution_failure call stands between
\* its two increments.
C27_Converge ==
    /\ metrics["resolutions_total"] >= Outcomes
    /\ BetweenIncrements = {} => metrics["resolutions_total"] = Outcomes

\* the counters ran apart and have met again: three calls of both kinds are
\* through, none is in flight
C27_Witness ==
    /\ BetweenIncrements = {}
    /\ \A p \in Clients :
            /\ mproc[p].pc = "done"
            /\ mproc[p].op \in {"record_resolution_success", "record_resolution_failure"}
    /\ metrics["resolutions_success"] >= 1
    /\ metrics["resolutions_failed"] >= 1
    /\ metrics["resolutions_total"] = Cardinality(Clients)

-----------------------------------------------------------------------------
(* expiry of cache entries *)

\* key k is stored although its entry has expired
StoredExpired(k) == k \in DOMAIN entries /\ ~Unexpired(entries[k], now)

C30_GetState ==
    \A c \in Callers :
        (last = [op |-> "get", who |-> c] /\ StoredExpired(call[c].hrn)) =>
            call[c].cached = None

C30_LazySteps ==
    /\ last'.op \notin {"insert", "invalidate_cache", "clear_cache"} =>
            entries' = entries
    /\ DOMAIN entries \subseteq DOMAIN entries'
            \/ last'.op \in {"invalidate_cache", "clear_cache"}
    /\ \A c \in Callers :
            (call[c].pc = "resolve" /\ call'[c].resolved.tag = "Err") =>
                /\ call'[c].pc = "done"
                /\ entries' = entries

\* C30: a get reports an expired entry absent and leaves the cache as it is;
\* only insert, invalidate and clear change the map, and only invalidate and
\* clear take a key out of it; a resolution that fails ends the call with the
\* map unchanged, so an expired entry of its key stays stored.
C30_LazyExpiry == []C30_GetState /\ [][C30_LazySteps]_vars

\* a key was stored at 0 and expired at 1; its re-resolution has failed and
\* the entry is still there
C30_Witness ==
    \E c \in Callers :
        /\ Failed(c)
        /\ last = [op |-> "resolve", who |-> c]
        /\ call[c].cached = None
        /\ StoredExpired(call[c].hrn)
        /\ cfg.cache_ttl = 1
        /\ entries[call[c].hrn].cached_at = 0 /\ now = 1

-----------------------------------------------------------------------------
(* resolver.rs: the RwLock around the entry map of one AddressCache, taken by
   concurrent tasks of one resolver that has a cache *)

\* the most tasks that use the resolver at once
MaxTasks == 3

LockTasks == 1..MaxTasks

LockOps == {"resolve_with_safety_checks", "invalidate_cache", "clear_cache"}

\* the keys the tasks ask for
LockKeys == { <<"a", "@", "d">>, <<"b", "@", "d">> }

\* what the backend answers them: a payment info or an error
LockAnswers == {Ok("info1"), Err("DnsError")}

\* overtaken notes that the task's key was invalidated after its get missed
IdleTask ==
    [op |-> "none", pc |-> "idle", hrn |-> <<>>, cached |-> None, result |-> None,
     overtaken |-> FALSE]

\* tokio::sync::RwLock: read() is granted while no writer holds the lock,
\* write() while nobody holds it; a guard is given up when it goes out of scope
ReadGranted(l) == l.writer = {}
WriteGranted(l) == l.readers = {} /\ l.writer = {}
ReadGuard(l, t) == [l EXCEPT !.readers = @ \cup {t}]
WriteGuard(l, t) == [l EXCEPT !.writer = @ \cup {t}]
KeepGuard(l, t) == l
DropGuard(l, t) == [l EXCEPT !.readers = @ \ {t}, !.writer = @ \ {t}]

LFrame == UNCHANGED <<now, cfg, metrics, engine_calls, call, last, mproc,
                      pin, eng, heap, held, rt, outs, bcall, pinfo, rt_made>>

\* a task calls the resolver; each of the three operations first waits for
\* the lock
TaskCall(t, op, hrn) ==
    /\ th[t].pc = "idle"
    /\ th' = [th EXCEPT ![t] =
            [IdleTask EXCEPT
                !.op = op, !.hrn = hrn,
                !.pc = IF op = "resolve_with_safety_checks"
                       THEN "read_wait" ELSE "write_wait"]]
    /\ UNCHANGED <<entries, lk>>
    /\ LFrame

\* resolver.rs:77: self.entries.read().await
GetRead(t) ==
    /\ th[t].pc = "read_wait"
    /\ ReadGranted(lk)
    /\ lk' = ReadGuard(lk, t)
    /\ th' = [th EXCEPT ![t].pc = "get"]
    /\ UNCHANGED entries
    /\ LFrame

\* resolver.rs:78-84 with 274-290: the look-up under the read guard, which
\* is dropped as get returns; a hit returns the value, a miss goes on to the
\* backend
GetReturn(t) ==
    /\ th[t].pc = "get"
    /\ LET cached == CacheGet(entries, th[t].hrn, now)
       IN  th' = [th EXCEPT
                ![t].cached = cached,
                ![t].pc = IF cached.tag = "Some" THEN "done" ELSE "backend",
                ![t].result = IF cached.tag = "Some" THEN Ok(cached.val) ELSE @]
    /\ lk' = DropGuard(lk, t)
    /\ UNCHANGED entries
    /\ LFrame

\* resolver.rs:292-293: self.resolve(user, domain).await?, however long the
\* backend takes
BackendReturn(t) ==
    /\ th[t].pc = "backend"
    /\ \E r \in LockAnswers :
        th' = [th EXCEPT
            ![t].result = r,
            ![t].pc = IF r.tag = "Err" THEN "done" ELSE "insert_wait"]
    /\ UNCHANGED <<entries, lk>>
    /\ LFrame

\* resolver.rs:87, 96, 331: self.entries.write().await
WriteLock(t) ==
    /\ th[t].pc \in {"insert_wait", "write_wait"}
    /\ WriteGranted(lk)
    /\ lk' = WriteGuard(lk, t)
    /\ th' = [th EXCEPT ![t].pc = IF th[t].pc = "insert_wait" THEN "insert" ELSE "write"]
    /\ UNCHANGED entries
    /\ LFrame

\* resolver.rs:88-93 with 297-313: the insert under the write guard, dropped
\* as insert returns
InsertReturn(t) ==
    /\ th[t].pc = "insert"
    /\ entries' = CacheInsert(entries, th[t].hrn, th[t].result.val, now, cfg.cache_ttl)
    /\ lk' = DropGuard(lk, t)
    /\ th' = [th EXCEPT ![t].pc = "done"]
    /\ LFrame

\* resolver.rs:97 and 332: entries.remove(hrn) / entries.clear() under the
\* write guard, dropped as the function returns
WriteReturn(t) ==
    /\ th[t].pc = "write"
    /\ entries' = IF th[t].op = "invalidate_cache"
                  THEN CacheInvalidate(entries, th[t].hrn)
                  ELSE CacheClear(entries)
    /\ lk' = DropGuard(lk, t)
    /\ th' = [u \in LockTasks |->
                IF u = t THEN [th[u] EXCEPT !.pc = "done"]
                ELSE IF /\ th[u].pc \in {"backend", "insert_wait"}
                        /\ th[t].op = "clear_cache" \/ th[u].hrn = th[t].hrn
                THEN [th[u] EXCEPT !.overtaken = TRUE]
                ELSE th[u]]
    /\ LFrame

InitLock ==
    /\ now = 0
    /\ cfg = [enable_cache |-> TRUE, cache_ttl |-> MaxTtl, enable_metrics |-> FALSE]
    /\ entries = <<>>
    /\ metrics = NewMetrics
    /\ engine_calls = 0
    /\ call = [c \in Callers |-> IdleCall]
    /\ last = [op |-> "new", who |-> "resolver"]
    /\ mproc = [p \in Clients |-> IdleProc]
    /\ pin = IdlePin
    /\ eng = IdleEng
    /\ heap = <<>>
    /\ held = {}
    /\ rt = "unset"
    /\ outs = IdleOuts
    /\ bcall = IdleBcall
    /\ pinfo = IdleInfo
    /\ lk = IdleLock
    /\ th = [t \in LockTasks |-> IdleTask]
    /\ rt_made = 0

NextLock ==
    \/ \E t \in LockTasks, op \in LockOps, hrn \in LockKeys : TaskCall(t, op, hrn)
    \/ \E t \in LockTasks : GetRead(t)
    \/ \E t \in LockTasks : GetReturn(t)
    \/ \E t \in LockTasks : BackendReturn(t)
    \/ \E t \in LockTasks : WriteLock(t)
    \/ \E t \in LockTasks : InsertReturn(t)
    \/ \E t \in LockTasks : WriteReturn(t)

SpecLock == InitLock /\ [][NextLock]_vars

\* the tasks that hold the lock, and what each task is doing
Holders == lk.readers \cup lk.writer
Reading(t) == th[t].pc = "get"
Writing(t) == th[t].pc \in {"insert", "write"}
Waiting(t) == th[t].pc \in {"read_wait", "insert_wait", "write_wait"}

C28_LockState ==
    /\ Cardinality(lk.writer) <= 1
    /\ lk.writer # {} => lk.readers = {}
    /\ \A t \in LockTasks :
            /\ t \in lk.readers <=> Reading(t)
            /\ t \in lk.writer <=> Writing(t)
            /\ th[t].pc = "backend" => t \notin Holders
    /\ (\A t \in LockTasks : ~Reading(t) /\ ~Writing(t)) =>
            \A t \in LockTasks : Waiting(t) => ENABLED (GetRead(t) \/ WriteLock(t))

C28_LockSteps ==
    /\ entries' # entries => lk.writer # {}
    /\ \A t \in LockTasks :
            (t \in Holders /\ th'[t].pc # th[t].pc) => t \notin lk'.readers \cup lk'.writer

\* C28: at most one task writes and nobody reads meanwhile; a task holds the
\* lock exactly while it is inside get, insert, invalidate or clear, never
\* during its backend call, and gives it up with its next step; the map
\* changes only under the write guard; whenever no task is inside one of
\* these four, every waiting task can take the lock at once, whatever backend
\* calls are in flight.
C28_CacheLocking == []C28_LockState /\ [][C28_LockSteps]_vars

\* two gets hold the map together while a third task's backend call is in
\* flight
C28_Witness ==
    /\ Cardinality(lk.readers) = 2
    /\ \E t \in LockTasks : th[t].pc = "backend" /\ th[t].cached = None

-----------------------------------------------------------------------------
(* ffi.rs: RUNTIME, the process-wide OnceCell<Runtime>, used by boundary
   resolve calls that several threads of the host make at once *)

\* the most threads of the host that call the boundary
MaxThreads == 3

\* the most resolve calls one thread makes
MaxCalls == 1

Threads == 1..MaxThreads

\* the resolver handles the host creates and frees
RtHandles == {1, 2}

\* the address argument of a resolve call
RtAddrArgs == {CNull, CInvalid, CText(<<"a", "@", "d">>)}

IdleThread == [pc |-> "idle", ptr |-> NULL, on |-> 0, calls |-> 0, passed |-> FALSE]

\* no panic has aborted the process
Running == rt # "aborted"

\* the calls in flight on handle h
Using(h) == {t \in Threads : th[t].pc \notin {"idle", "panicked"} /\ th[t].ptr = h}

\* OnceCell::get_or_init runs the closure only on the empty cell; while one
\* thread runs it the others wait. The variant lets them run it too.
CanInitRacing(cell) == cell \in {"unset", "initializing"}
CanInit(cell) == cell = "unset"

RFrame == UNCHANGED <<now, cfg, entries, metrics, engine_calls, call, last, mproc,
                      pin, eng, heap, outs, bcall, pinfo, lk>>

\* ffi.rs:32-41: bip353_resolver_create
HostCreate(h) ==
    /\ Running
    /\ h \notin held
    /\ held' = held \cup {h}
    /\ UNCHANGED <<th, rt, rt_made>>
    /\ RFrame

\* ffi.rs:75-81: bip353_resolver_free, on a handle no call is using
HostFree(h) ==
    /\ Running
    /\ h \in held
    /\ Using(h) = {}
    /\ held' = held \ {h}
    /\ UNCHANGED <<th, rt, rt_made>>
    /\ RFrame

\* ffi.rs:104-117: bip353_resolve_address up to get_runtime: a null handle, a
\* null address or an address that is not UTF-8 returns null at once
ResolveEnter(t, ptr, address) ==
    /\ Running
    /\ th[t].pc = "idle"
    /\ th[t].calls < MaxCalls
    /\ IF ptr = NULL \/ address = CNull \/ to_str(address).tag = "Err"
       THEN th' = [th EXCEPT ![t].calls = @ + 1, ![t].ptr = NULL, ![t].on = 0]
       ELSE th' = [th EXCEPT ![t].calls = @ + 1, ![t].ptr = ptr, ![t].on = 0,
                             ![t].passed = TRUE, ![t].pc = "get_runtime"]
    /\ UNCHANGED <<held, rt, rt_made>>
    /\ RFrame

\* ffi.rs:21-22: RUNTIME.get_or_init: the runtime of the full cell, or the
\* closure is entered on the empty one
GetOrInit(t) ==
    /\ Running
    /\ th[t].pc = "get_runtime"
    /\ IF rt = "ready"
       THEN /\ th' = [th EXCEPT ![t].pc = "block_on", ![t].on = rt_made]
            /\ rt' = rt
       ELSE /\ CanInit(rt)
            /\ th' = [th EXCEPT ![t].pc = "init"]
            /\ rt' = "initializing"
    /\ UNCHANGED <<held, rt_made>>
    /\ RFrame

\* ffi.rs:23: Runtime::new().expect(..): the new runtime fills the cell; on
\* an error the panic leaves the cell empty and leaves the foreign function,
\* which aborts the process or unwinds into the host
InitReturn(t) ==
    /\ Running
    /\ th[t].pc = "init"
    /\ \E new \in RuntimeNew :
        IF new.tag = "Ok"
        THEN /\ rt' = "ready"
             /\ rt_made' = rt_made + 1
             /\ th' = [th EXCEPT ![t].pc = "block_on", ![t].on = rt_made + 1]
        ELSE /\ rt' \in {"aborted", "unset"}
             /\ rt_made' = rt_made
             /\ th' = [th EXCEPT ![t].pc = "panicked"]
    /\ UNCHANGED held
    /\ RFrame

\* ffi.rs:122-126: runtime.block_on(..) and create_result_ptr: the call returns
BlockOnReturn(t) ==
    /\ Running
    /\ th[t].pc = "block_on"
    /\ th' = [th EXCEPT ![t].pc = "idle"]
    /\ UNCHANGED <<held, rt, rt_made>>
    /\ RFrame

InitRuntime ==
    /\ now = 0
    /\ cfg = [enable_cache |-> FALSE, cache_ttl |-> 0, enable_metrics |-> FALSE]
    /\ entries = <<>>
    /\ metrics = NewMetrics
    /\ engine_calls = 0
    /\ call = [c \in Callers |-> IdleCall]
    /\ last = [op |-> "new", who |-> "boundary"]
    /\ mproc = [p \in Clients |-> IdleProc]
    /\ pin = IdlePin
    /\ eng = IdleEng
    /\ heap = <<>>
    /\ held = {}
    /\ rt = "unset"
    /\ outs = IdleOuts
    /\ bcall = IdleBcall
    /\ pinfo = IdleInfo
    /\ lk = IdleLock
    /\ th = [t \in Threads |-> IdleThread]
    /\ rt_made = 0

NextRuntime ==
    \/ \E h \in RtHandles : HostCreate(h)
    \/ \E h \in RtHandles : HostFree(h)
    \/ \E t \in Threads, ptr \in held \cup {NULL}, address \in RtAddrArgs :
            ResolveEnter(t, ptr, address)
    \/ \E t \in Threads : GetOrInit(t)
    \/ \E t \in Threads : InitReturn(t)
    \/ \E t \in Threads : BlockOnReturn(t)

SpecRuntime == InitRuntime /\ [][NextRuntime]_vars

\* the calls that have passed validation, and the calls that ran
Passed == {t \in Threads : th[t].passed}
Ran == {t \in Threads : th[t].on # 0}

C29_RuntimeState ==
    /\ rt_made <= 1
    /\ rt = "ready" <=> rt_made = 1
    /\ Passed = {} => rt = "unset"
    /\ \A t \in Threads :
            /\ th[t].pc \in {"get_runtime", "init", "block_on"} =>
                    th[t].ptr \in held /\ th[t].passed
            /\ th[t].pc = "block_on" => t \in Ran
            /\ t \in Ran => rt = "ready" /\ th[t].on = rt_made

C29_RuntimeSteps ==
    /\ rt = "ready" => rt' = "ready"
    /\ rt_made' >= rt_made
    /\ rt_made' # rt_made =>
            \E t \in Passed : th[t].pc = "init" /\ th'[t].pc = "block_on"
    /\ held' # held => rt' = rt /\ rt_made' = rt_made

\* C29: the cell is filled at most once, by a call that passed validation,
\* and is empty while no call has; once filled it stays filled, whatever
\* handles are created or freed; every resolve that runs, on whichever handle
\* and thread, runs on the one runtime of the cell.
C29_OneRuntime == []C29_RuntimeState /\ [][C29_RuntimeSteps]_vars

\* two threads have resolved on different handles, both on the one runtime,
\* which is still there with every handle freed
C29_Witness ==
    /\ rt = "ready" /\ rt_made = 1
    /\ held = {}
    /\ \E t, u \in Threads :
        /\ th[t].pc = "idle" /\ th[u].pc = "idle"
        /\ t \in Ran /\ u \in Ran
        /\ th[t].ptr # th[u].ptr
    /\ \E v \in Threads : th[v].pc = "panicked"

-----------------------------------------------------------------------------
(* insert overwrites *)

\* call c has made its insert
Inserted(c) == \E i \in 1..Len(call[c].log) : call[c].log[i] = "insert"

\* the entry an insert by call c leaves at clock reading t
Stamped(c, t) ==
    [payment_info |-> call[c].resolved.val, cached_at |-> t, ttl |-> cfg.cache_ttl]

C31_InsertState ==
    \A c \in Callers :
        last = [op |-> "insert", who |-> c] =>
            /\ call[c].hrn \in DOMAIN entries
            /\ entries[call[c].hrn] = Stamped(c, now)
            /\ CacheGet(entries, call[c].hrn, now) =
                    IF cfg.cache_ttl > 0 THEN Some(call[c].resolved.val) ELSE None

C31_InsertSteps ==
    \A c \in Callers :
        (call[c].pc = "insert" /\ call'[c].pc # "insert") =>
            /\ DOMAIN entries' = DOMAIN entries \cup {call[c].hrn}
            /\ entries'[call[c].hrn] = Stamped(c, now)
            /\ \A k \in DOMAIN entries \ {call[c].hrn} : entries'[k] = entries[k]
            /\ now' = now

\* C31: an insert leaves under its key exactly the value inserted, stamped with
\* the clock's reading at the insert and the cache's TTL, whatever was stored
\* there before, and leaves every other key as it was; a look-up of the key at
\* that reading returns the value when the TTL is above zero.
C31_Overwrite == []C31_InsertState /\ [][C31_InsertSteps]_vars

\* insert(k, info) at 0, expired at 1, then insert(k, another info) at 1: the
\* entry holds the second value and the second stamp and is valid again
C31_Witness ==
    \E c, d \in Callers :
        /\ c # d /\ call[c].hrn = call[d].hrn
        /\ last = [op |-> "insert", who |-> d]
        /\ Inserted(c) /\ call[c].resolved.val # call[d].resolved.val
        /\ cfg.cache_ttl = 1 /\ now = 1
        /\ entries[call[d].hrn] = Stamped(d, 1)
        /\ CacheGet(entries, call[d].hrn, now) = Some(call[d].resolved.val)

-----------------------------------------------------------------------------
(* resolve_address fails fast *)

C32_FailFastState ==
    eng.pc # "idle" =>
        LET parsed == parse_address(eng.input)
        IN  IF parsed.tag = "Err"
            THEN /\ eng.pc = "done"
                 /\ eng.result = Some(Err("InvalidAddress"))
                 /\ eng.args = None
                 /\ engine_calls = 0
            ELSE /\ engine_calls = 1
                 /\ eng.args.tag = "Some"
                 /\ eng.args.val.hrn = parsed.val.user \o <<"@">> \o parsed.val.domain
                 /\ eng.args.val.network = eng.config.network

C32_FailFastSteps ==
    /\ engine_calls' # engine_calls => eng.pc = "idle" /\ eng'.pc = "waiting"
    /\ eng.pc # "idle" => eng'.args = eng.args /\ eng'.input = eng.input

\* C32: a resolve_address call whose address parse_address rejects is over at
\* once with InvalidAddress and no backend invocation; one whose address it
\* accepts invokes the backend exactly once, with user@domain as parsed and
\* the network of the resolver's configuration.
C32_FailFast == []C32_FailFastState /\ [][C32_FailFastSteps]_vars

\* an address without an @ was given on a resolver that is not on the main
\* network: InvalidAddress, and the backend was never asked
C32_Witness ==
    /\ eng.pc = "done"
    /\ eng.input = <<"a">>
    /\ eng.result = Some(Err("InvalidAddress"))
    /\ engine_calls = 0
    /\ eng.config.network = "Signet"

-----------------------------------------------------------------------------
(* the translation of the backend's failures *)

\* the failures the claim names: a failed name resolution, and malformed,
\* inconsistent, expired, wrong-network and unknown-parameter instructions
NameResolutionFailures == {"HrnResolutionError"}
RecordFailures ==
    {"InvalidOnChain", "InvalidBolt11", "InvalidBolt12", "InvalidInstructions",
     "UnknownPaymentInstructions", "InconsistentInstructions", "InstructionsExpired",
     "WrongNetwork", "UnknownRequiredParameter"}

\* C33: a resolve that the backend failed returns DnsError for a failed name
\* resolution and InvalidRecord for malformed, inconsistent, expired,
\* wrong-network and unknown-parameter instructions; these are all the
\* failures the backend has, so the translation is total and none is left to
\* pass through as ImplError.
C33_Translation ==
    /\ ParseErrors = NameResolutionFailures \cup RecordFailures
    /\ (eng.pc = "done" /\ eng.parsed.tag = "Some" /\ eng.parsed.val.tag = "Err") =>
            /\ eng.result.val.tag = "Err"
            /\ eng.parsed.val.err \in NameResolutionFailures =>
                    eng.result.val.err = "DnsError"
            /\ eng.parsed.val.err \in RecordFailures =>
                    eng.result.val.err = "InvalidRecord"
            /\ eng.parsed.val.err \notin NameResolutionFailures \cup RecordFailures =>
                    eng.result.val.err = "ImplError"
    /\ (eng.pc = "done" /\ eng.parsed.tag = "Some" /\ eng.parsed.val.tag = "Ok") =>
            eng.result = eng.parsed

\* the name could not be resolved: DnsError
C33_Witness ==
    /\ eng.pc = "done"
    /\ eng.parsed = Some(Err("HrnResolutionError"))
    /\ eng.result = Some(Err("DnsError"))

-----------------------------------------------------------------------------
(* construction of a resolver *)

\* the configurations the constructors of ResolverConfig give
NamedConfigs ==
    {"ResolverConfig::default", "ResolverConfig::testnet", "ResolverConfig::signet",
     "ResolverConfig::regtest"}

\* C34: new, with_config on the default, testnet, signet and regtest
\* configurations and on every network with every timeout, and
\* with_enhanced_config with every choice of features all return Ok; a
\* bip353_resolver_create call returns a handle that is not null, is live and
\* is the caller's.
C34_NeverFails ==
    /\ ResolverNew.tag = "Ok"
    /\ \A config \in NamedConfigs : with_config(config).tag = "Ok"
    /\ \A config \in ResolverConfigs : with_config(config).tag = "Ok"
    /\ \A c \in Configs :
            with_enhanced_config(c.enable_cache, c.cache_ttl, c.enable_metrics).tag = "Ok"
    /\ bcall.fn = "bip353_resolver_create" =>
            /\ bcall.ret.tag = "ptr"
            /\ bcall.ret # RetPtr(NULL)
            /\ bcall.ret.ptr \in held
            /\ Live(bcall.ret.ptr)
            /\ heap[bcall.ret.ptr].kind = "resolver"

\* a second handle has just been created
C34_Witness ==
    /\ bcall.fn = "bip353_resolver_create"
    /\ bcall.ret = RetPtr(2)
    /\ Cardinality(HeldOf("resolver")) = 2

-----------------------------------------------------------------------------
(* snapshots taken while resolutions are recorded *)

\* the snapshots of get_resolution_stats that have been returned
Snapshots ==
    {mproc[p].ret.val : p \in {q \in Clients :
        mproc[q].pc = "done" /\ mproc[q].op = "get_resolution_stats"}}

\* C35: every snapshot returned by get_resolution_stats has success + failed
\* <= total, so its success_rate is at most 1
C35_SnapshotBound ==
    \A r \in Snapshots :
        /\ r.success + r.failed <= r.total
        /\ r.success_rate[1] <= r.success_rate[2]

-----------------------------------------------------------------------------
(* invalidation and the calls in flight *)

\* C36: a resolve_with_safety_checks call whose get had missed before
\* invalidate_cache of its key or clear_cache ran does not store its key
\* afterwards
C36_NotUndoneStep ==
    \A t \in LockTasks :
        (th[t].overtaken /\ th[t].pc = "insert" /\ th'[t].pc = "done") =>
            th[t].hrn \notin DOMAIN entries'

C36_NotUndone == [][C36_NotUndoneStep]_vars

----------------------------------------------------------------------------
(* C37 *)

\* the first method, from which resolve builds the URI, and the last one,
\* which from_instructions leaves in payment_type
FirstMethod == Given.methods[1]
LastMethod == Given.methods[Len(Given.methods)]

\* C37 as stated: for every successful resolve, payment_type names the kind
\* of method the returned URI was built from: OnChain for "bitcoin:<address>",
\* Lightning for "bitcoin:?lightning=...", LightningOffer for "bitcoin:?lno=..."
C37_SameMethodAsStated ==
    (Resolved /\ UriMethodType(Info.uri) # "Unknown") =>
        Info.payment_type = UriMethodType(Info.uri)

\* C37: the URI is built from the first method and payment_type is the type
\* of the last one, so payment_type names the kind of method the returned URI
\* was built from whenever the first and the last method are of the same
\* type, in particular when there is one method: OnChain for
\* "bitcoin:<address>", Lightning for "bitcoin:?lightning=...", LightningOffer
\* for "bitcoin:?lno=..."
C37_SameMethod ==
    (Resolved /\ Given.methods # <<>>) =>
        /\ Info.payment_type = TypeOf(LastMethod.kind)
        /\ FirstMethod.kind # "LNURLPay" =>
              /\ UriMethodType(Info.uri) = TypeOf(FirstMethod.kind)
              /\ TypeOf(FirstMethod.kind) = TypeOf(LastMethod.kind)
                    => Info.payment_type = UriMethodType(Info.uri)

\* an invoice first and an LNURL-pay method last, both of type Lightning:
\* the URI is the invoice's and the type is Lightning
C37_Witness ==
    /\ Resolved
    /\ Len(Given.methods) = 2
    /\ FirstMethod = [kind |-> "LightningBolt11", data |-> "lnbc1"]
    /\ LastMethod.kind = "LNURLPay"
    /\ Info.uri = <<"bitcoin:", "?", "lightning", "=", "lnbc1">>
    /\ Info.payment_type = "Lightning"

----------------------------------------------------------------------------
(* C38 *)

\* the call c asked the backend for (u, d) = the two halves of key k, and the
\* backend answered Ok with the payment info v
ResolvedFor(c, k, v) ==
    /\ call[c].user \o <<"@">> \o call[c].domain = k
    /\ call[c].resolved.tag = "Ok"
    /\ call[c].resolved.val = v

\* the keys whose entry a step created or changed
Touched == {k \in DOMAIN entries' : k \notin DOMAIN entries \/ entries'[k] # entries[k]}

C38_IntegrityState ==
    /\ \A k \in DOMAIN entries :
          \E c \in Callers : Inserted(c) /\ ResolvedFor(c, k, entries[k].payment_info)
    /\ \A c \in Callers :
          (call[c].cached.tag = "Some" \/ call[c].resolved.tag = "Err") => ~Inserted(c)

C38_IntegritySteps ==
    /\ \A k \in Touched :
          /\ last'.op = "insert"
          /\ ResolvedFor(last'.who, k, entries'[k].payment_info)
    /\ \A c \in Callers :
          /\ (call[c].pc \in {"get", "hit"} /\ call'[c] # call[c]) => entries' = entries
          /\ (call[c].pc = "resolve" /\ call'[c].resolved.tag = "Err")
                => entries' = entries /\ call'[c].pc = "done"

\* C38: cache integrity: in every reachable state, under any interleaving of
\* resolve_with_safety_checks, invalidate_cache and clear_cache calls, each
\* entry stored under key "u@d" is a payment info the backend returned for a
\* successful resolution of exactly (u, d) on this resolver; cache hits and
\* failed resolutions never create or change an entry
C38_CacheIntegrity == []C38_IntegrityState /\ [][C38_IntegritySteps]_vars

\* one call stored its answer under "a@d", the entry was served to nobody
\* yet, and the other call's resolution of the same name has just failed
C38_Witness ==
    /\ last = [op |-> "resolve", who |-> "c2"]
    /\ call["c2"].resolved.tag = "Err"
    /\ call["c2"].hrn = <<"a", "@", "d">>
    /\ Inserted("c1")
    /\ <<"a", "@", "d">> \in DOMAIN entries
    /\ entries[<<"a", "@", "d">>].payment_info = call["c1"].resolved.val

----------------------------------------------------------------------------
(* C39 *)

\* the calls that have returned, and whether no call is under way
Completed == {c \in Callers : call[c].pc = "done"}
Quiescent == \A c \in Callers : call[c].pc \in {"idle", "done"}

C39_CounterState ==
    (cfg.enable_cache /\ cfg.enable_metrics /\ Quiescent) =>
        /\ metrics["cache_hits"] + metrics["cache_misses"] = Cardinality(Completed)
        /\ engine_calls = metrics["cache_misses"]
        /\ metrics["resolutions_success"] <= metrics["cache_misses"]

C39_CounterSteps ==
    \A c \in Callers :
        (cfg.enable_cache /\ cfg.enable_metrics /\ call[c].pc = "hit" /\ call'[c].pc = "done")
            => /\ metrics'["resolutions_total"] = metrics["resolutions_total"]
               /\ metrics'["resolutions_success"] = metrics["resolutions_success"]
               /\ metrics'["resolutions_failed"] = metrics["resolutions_failed"]
               /\ metrics'["cache_hits"] = metrics["cache_hits"] + 1

\* C39: with cache and metrics both enabled, after any set of completed
\* resolve_with_safety_checks calls, in any interleaving, cache_hits +
\* cache_misses equals the number of calls, the number of backend invocations
\* equals cache_misses, resolutions_success <= cache_misses, and a cache hit
\* leaves resolutions_total, resolutions_success and resolutions_failed unchanged
C39_Counters == []C39_CounterState /\ [][C39_CounterSteps]_vars

\* two calls have returned, one answered by the backend and one from the cache
C39_Witness ==
    /\ cfg.enable_cache /\ cfg.enable_metrics
    /\ Completed = Callers
    /\ metrics["cache_hits"] = 1 /\ metrics["cache_misses"] = 1
    /\ engine_calls = 1
    /\ metrics["resolutions_success"] = 1
    /\ last.op = "hit"

----------------------------------------------------------------------------
(* C40 *)

\* the allocations a step makes, and the caller's two slots
Allocated == (DOMAIN heap') \ (DOMAIN heap)
OutSlots == {"user_out", "domain_out"}

\* a step of bip353_parse_address called with two slots
ParseAddressStep ==
    /\ bcall'.fn = "bip353_parse_address"
    /\ <<heap', held', outs', bcall'>> # <<heap, held, outs, bcall>>
    /\ bcall'.args[2] = "slot" /\ bcall'.args[3] = "slot"

C40_HandOverStep ==
    ParseAddressStep =>
        /\ bcall'.ret = RetBool(TRUE) =>
              /\ outs'.user_out # outs'.domain_out
              /\ \A s \in OutSlots :
                    /\ outs'[s] \in Allocated
                    /\ heap'[outs'[s]].kind = "string"
                    /\ heap'[outs'[s]].frees = 0
                    /\ outs'[s] \in held'
              /\ held' = held \cup Allocated
        /\ bcall'.ret = RetBool(FALSE) =>
              /\ \A id \in Allocated : heap'[id].frees = 1 /\ id \notin held'
              /\ \A s \in OutSlots : outs'[s] \in {outs[s], NULL}
              /\ held' = held
        /\ bcall'.ret \in {RetBool(TRUE), RetBool(FALSE)}
        /\ \A id \in DOMAIN heap : heap'[id] = heap[id]

\* C40: bip353_parse_address hands over ownership all-or-nothing: when it
\* returns true both out-parameters point to two distinct newly allocated
\* strings owned by the caller; when it returns false no string allocated by
\* the call remains live and no out-parameter points to freed memory
C40_HandOver == [][C40_HandOverStep]_vars

\* a parse that returned true: the slots hold the user and the domain string
C40_Witness ==
    /\ bcall.fn = "bip353_parse_address"
    /\ bcall.ret = RetBool(TRUE)
    /\ bcall.args[1] = CText(<<"BTC", "a", "@", "d">>)
    /\ outs.user_out # outs.domain_out
    /\ outs.user_out \in held /\ outs.domain_out \in held
    /\ heap[outs.user_out].text = <<"a">>
    /\ heap[outs.domain_out].text = <<"d">>
    /\ Live(outs.user_out) /\ Live(outs.domain_out)

====
